---- MODULE Spec2Model ----
(***************************************************************************)
(* Model of the nitro-enclave-kubelet lifecycle orchestrator:              *)
(*   pkg/node/pod.go   (Pod: NewPod, NewPodFromTag, Start, Stop, GetStatus) *)
(*   pkg/node/node.go  (Node: registry, loadPodState)                      *)
(*   pkg/cli           (RunEnclave, DescribeEnclaves, TerminateEnclave)    *)
(*   provider          (CreatePod, DeletePod, GetPod, GetPodStatus)        *)
(*   container.go      (setResourceRequirements)                           *)
(*   pkg/build         (BuildEif, generateBootstrap, generateCustomer)     *)
(* The main specification Spec runs the provider against the runtime; the  *)
(* other specifications apply single components to bounded inputs:         *)
(* SpecCodec (tags), SpecNewPod, SpecConsole (console streams), SpecLock   *)
(* (the registry's lock), SpecRes (resources), SpecRun (output parsing),   *)
(* SpecBuild (the image build pipeline), SpecConc (CreatePod running        *)
(* concurrently with DeletePod), SpecConcFair (SpecConc under a fair       *)
(* scheduler), SpecLogsLock (SpecLock with GetContainerLogs).              *)
(*                                                                         *)
(* Go strings are sequences of one-character strings, so that             *)
(* strings.Split and fmt.Sprintf are computed character by character.      *)
(* The nil error is the string "nil"; the empty EnclaveID "" is 0.         *)
(***************************************************************************)
EXTENDS Integers, Sequences, FiniteSets, TLC

VARIABLES
  phase,          \* "boot": before NewNode has succeeded, "up": the provider is serving
  pods,           \* Node.pods: registry, tag -> Pod
  enclaves,       \* the runtime's listing (what describe-enclaves prints), in launch order
  nextId,         \* number of enclaves the runtime has launched so far
  openListeners,  \* listener addresses currently bound on the host
  tempFiles,      \* temporary files currently on disk
  ret,            \* what the last provider operation returned
  calls,          \* the external invocations the last provider operation made, in order
  nOps,           \* provider operations performed so far
  nEnv,           \* runtime-side events so far
  cMode, cNs, cName, cFields, cTag, cRes,  \* tag codec harness
  wl,                                      \* NewPod harness: the workload descriptor
  streams,        \* console harness: the console streams GetContainerLogs has returned
  mu,             \* registry-lock harness: Node's sync.RWMutex
  gor,            \* registry-lock harness: the goroutines calling the registry operations
  smtActive,      \* package variable smtActive, set once by init() at process start
  reqs,           \* resource harness: the container's corev1.ResourceRequirements
  def,            \* resource harness: the containerDefinition's Cpu and Memory
  stdout,         \* gateway harness: what the external process wrote to its stdout
  stop,           \* gateway harness: the opening delimiter run is called with
  runRes,         \* gateway harness: what run returned and decoded
  bld             \* build harness: the inputs and results of one BuildEif call

vars == <<phase, pods, enclaves, nextId, openListeners, tempFiles, ret, calls,
          nOps, nEnv, cMode, cNs, cName, cFields, cTag, cRes, wl, streams,
          mu, gor, smtActive, reqs, def, stdout, stop, runRes, bld>>

nodeVars == <<phase, pods, enclaves, nextId, openListeners, tempFiles, ret, calls,
              nOps, nEnv>>

codecVars == <<cMode, cNs, cName, cFields, cTag, cRes>>

\* the variables of the component harnesses other than the codec's and NewPod's
auxVars == <<streams, mu, gor, reqs, def, stdout, stop, runRes, bld>>

harnessVars == <<cMode, cNs, cName, cFields, cTag, cRes, wl, auxVars, smtActive>>

----------------------------------------------------------------------------
(* Bounds *)

MaxOps == 2
MaxEnv == 1
MaxStrLen == 2
MaxFields == 4
MaxStreams == 2
MaxProcs == 2
MaxCalls == 2
IntBits == 24
MaxOut == 5
MaxArgs == 2

----------------------------------------------------------------------------
(* Strings *)

Str(n) == [1..n -> {"a", "_"}]

enclaveNamePrefix == <<"v", "k", "-", "p", "o", "d", "s", "p", "e", "c">>

enclaveStateTerminating == "TERMINATING"

enclaveStateRunning == "RUNNING"

\* strings.Split(s, "_"): the substrings between consecutive separators; n
\* separators give n+1 fields, "" gives one empty field
Split(s) ==
  LET seps == {i \in DOMAIN s : s[i] = "_"}
      n == Cardinality(seps)
      \* position of the k-th separator; 0 before the first field, Len(s)+1 after the last
      pos(k) == IF k = 0 THEN 0
                ELSE IF k = n + 1 THEN Len(s) + 1
                ELSE CHOOSE i \in seps : Cardinality({j \in seps : j < i}) = k - 1
  IN [k \in 1..(n + 1) |-> SubSeq(s, pos(k - 1) + 1, pos(k) - 1)]

\* strings.Join(fields, "_"), used to enumerate input strings
RECURSIVE Join(_)
Join(fs) ==
  IF fs = <<>> THEN <<>>
  ELSE IF Len(fs) = 1 THEN fs[1]
  ELSE fs[1] \o <<"_">> \o Join(Tail(fs))

buildEnclaveNameTagSwapped(namespace, name) ==
  enclaveNamePrefix \o <<"_">> \o name \o <<"_">> \o namespace

\* fmt.Sprintf("%s_%s_%s", enclaveNamePrefix, namespace, name)
buildEnclaveNameTag(namespace, name) ==
  enclaveNamePrefix \o <<"_">> \o namespace \o <<"_">> \o name

----------------------------------------------------------------------------
(* Data model *)

NoErr == "nil"

\* zero value of cli.EnclaveInfo
NoInfo == [EnclaveName |-> <<>>, EnclaveID |-> 0, EnclaveCID |-> 0, State |-> ""]

\* the empty file name
NoFile == [pattern |-> <<>>, n |-> 0]

\* the nil *Pod
NilPod ==
  [namespace |-> <<>>, name |-> <<>>, info |-> NoInfo,
   config |-> [EnclaveName |-> <<>>, CPUCount |-> 0, MemoryMib |-> 0, EifPath |-> NoFile,
               DebugMode |-> FALSE],
   ports |-> <<>>, containers |-> <<>>, listeners |-> <<>>, isNil |-> TRUE]

\* schema.GroupVersion.String()
GroupVersionString(gvk) ==
  IF gvk.Group = "" THEN gvk.Version ELSE gvk.Group \o "/" \o gvk.Version

IsOwnedBy(pod, gvks) ==
  \E ignoredOwner \in gvks : \E owner \in pod.OwnerReferences :
     owner.APIVersion = GroupVersionString(ignoredOwner) /\ owner.Kind = ignoredOwner.Kind

IsOwnedByDaemonSet(pod) ==
  IsOwnedBy(pod, {[Group |-> "apps", Version |-> "v1", Kind |-> "DaemonSet"]})

\* Node.InsertPod: n.pods[tag] = pod
InsertPod(reg, pod, tag) ==
  [t \in DOMAIN reg \cup {tag} |-> IF t = tag THEN pod ELSE reg[t]]

\* the map is re-made instead of the one key deleted
RemovePodAll(reg, tag) == <<>>

RemovePodNoop(reg, tag) == reg

\* Node.RemovePod: delete(n.pods, tag)
RemovePod(reg, tag) ==
  [t \in DOMAIN reg \ {tag} |-> reg[t]]

GetPodNoCheck(reg, namespace, name) ==
  LET tag == buildEnclaveNameTag(namespace, name) IN
  IF tag \in DOMAIN reg THEN [pod |-> reg[tag], err |-> NoErr]
  ELSE [pod |-> NilPod, err |-> NoErr]

\* Node.GetPod
GetPod(reg, namespace, name) ==
  LET tag == buildEnclaveNameTag(namespace, name) IN
  IF tag \in DOMAIN reg THEN [pod |-> reg[tag], err |-> NoErr]
  ELSE [pod |-> NilPod, err |-> "not found"]

NewPodFromTagShort(tag) ==
  LET data == Split(tag) IN
  IF Len(data) < 2 \/ data[1] # enclaveNamePrefix
  THEN [pod |-> NilPod, err |-> "invalid tag"]
  ELSE [pod |-> [NilPod EXCEPT !.namespace = data[2],
                               !.name = IF Len(data) < 3 THEN <<>> ELSE data[3],
                               !.isNil = FALSE],
        err |-> NoErr]

NewPodFromTag(tag) ==
  LET data == Split(tag) IN
  IF Len(data) < 3 \/ data[1] # enclaveNamePrefix
  THEN [pod |-> NilPod, err |-> "invalid tag"]
  ELSE [pod |-> [NilPod EXCEPT !.namespace = data[2], !.name = data[3], !.isNil = FALSE],
        err |-> NoErr]

----------------------------------------------------------------------------
(* Resource translation (container.go).  Go's int64 is modelled as a        *)
(* two's-complement integer of IntBits bits: sums and products wrap, and    *)
(* / truncates toward zero.                                                *)

MaxInt == 2^(IntBits - 1) - 1

\* the int64 a sum or product leaves
Wrap(x) == ((x + 2^(IntBits - 1)) % 2^IntBits) - 2^(IntBits - 1)

\* Go's integer division
GoDiv(a, b) == IF a >= 0 THEN a \div b ELSE -((-a) \div b)

MiB == 1024 * 1024

containerDefaultCPULimit == 2

containerDefaultMemoryLimit == 512

\* a resource.Quantity looked up in a ResourceList: ok is the map's ok, v the
\* int64 the code reads from it (ScaledValue(Milli) of a CPU quantity,
\* Value() of a memory quantity); the zero Quantity when absent
Absent == [ok |-> FALSE, v |-> 0]

\* corev1.ResourceRequirements without any quantity
NoRequirements ==
  [Limits |-> [cpu |-> Absent, memory |-> Absent],
   Requests |-> [cpu |-> Absent, memory |-> Absent]]

NoDefinition == [set |-> FALSE, Cpu |-> 0, Memory |-> 0]

setResourceRequirementsDoubledDefault(r) ==
  [set |-> TRUE,
   Cpu |-> IF smtActive THEN containerDefaultCPULimit * 2 ELSE containerDefaultCPULimit,
   Memory |-> containerDefaultMemoryLimit]

setResourceRequirementsRequestsFirst(r) ==
  LET quantity == IF r.Requests.cpu.ok THEN r.Requests.cpu ELSE r.Limits.cpu
      cpu == IF quantity.ok
             THEN LET c == GoDiv(quantity.v, 1000) IN IF smtActive THEN Wrap(c * 2) ELSE c
             ELSE containerDefaultCPULimit
      quantityM == IF r.Requests.memory.ok THEN r.Requests.memory ELSE r.Limits.memory
      memory == IF quantityM.ok THEN GoDiv(Wrap(quantityM.v + MiB - 1), MiB)
                ELSE containerDefaultMemoryLimit
  IN [set |-> TRUE, Cpu |-> cpu, Memory |-> memory]

\* container.setResourceRequirements(r): the definition's Cpu and Memory
setResourceRequirements(r) ==
  LET \* limits are preferred over requests
      quantity == IF r.Limits.cpu.ok THEN r.Limits.cpu ELSE r.Requests.cpu
      cpu == IF quantity.ok
             THEN LET c == GoDiv(quantity.v, 1000) IN IF smtActive THEN Wrap(c * 2) ELSE c
             ELSE containerDefaultCPULimit
      reqOk == r.Requests.memory.ok
      limOk == r.Limits.memory.ok
      \* if one is omitted, use the other one's value
      limQuantity == IF ~limOk /\ reqOk THEN r.Requests.memory ELSE r.Limits.memory
      memory == IF reqOk \/ limOk THEN GoDiv(Wrap(limQuantity.v + MiB - 1), MiB)
                ELSE containerDefaultMemoryLimit
  IN [set |-> TRUE, Cpu |-> cpu, Memory |-> memory]

\* the port mappings NewPod collects from every container, in order
RECURSIVE allPorts(_)
allPorts(containers) ==
  IF containers = <<>> THEN <<>>
  ELSE Head(containers).Ports \o allPorts(Tail(containers))

\* NewPod's loop: nitroPod.config.CPUCount += cntr.definition.Cpu
RECURSIVE totalCpu(_)
totalCpu(containers) ==
  IF containers = <<>> THEN 0
  ELSE Wrap(setResourceRequirements(Head(containers).Resources).Cpu + totalCpu(Tail(containers)))

\* NewPod's loop: nitroPod.config.MemoryMib += cntr.definition.Memory
RECURSIVE totalMemory(_)
totalMemory(containers) ==
  IF containers = <<>> THEN 0
  ELSE Wrap(setResourceRequirements(Head(containers).Resources).Memory
            + totalMemory(Tail(containers)))

NewPodInsertFirst(reg, pod) ==
  LET tag == buildEnclaveNameTag(pod.Namespace, pod.Name)
      nitroPod == [NilPod EXCEPT !.namespace = pod.Namespace, !.name = pod.Name,
                                 !.config.EnclaveName = tag, !.isNil = FALSE]
  IN IF IsOwnedByDaemonSet(pod) \/ Len(pod.Containers) > 1
     THEN [pod |-> NilPod, err |-> "unsupported", pods |-> InsertPod(reg, nitroPod, tag)]
     ELSE [pod |-> nitroPod, err |-> NoErr, pods |-> InsertPod(reg, nitroPod, tag)]

\* NewPod; the registry after the call is the pods field
NewPod(reg, pod) ==
  IF IsOwnedByDaemonSet(pod)
  THEN [pod |-> NilPod, err |-> "daemonsets are not supported", pods |-> reg]
  ELSE
    LET tag == buildEnclaveNameTag(pod.Namespace, pod.Name) IN
    IF Len(pod.Containers) > 1
    THEN [pod |-> NilPod, err |-> "launching more than 1 container is unsupported",
          pods |-> reg]
    ELSE
      LET nitroPod ==
            [NilPod EXCEPT
               !.namespace = pod.Namespace,
               !.name = pod.Name,
               !.config.EnclaveName = tag,
               !.config.CPUCount = totalCpu(pod.Containers),
               !.config.MemoryMib = totalMemory(pod.Containers),
               !.ports = allPorts(pod.Containers),
               !.containers = [c \in {pod.Containers[i].Name : i \in DOMAIN pod.Containers}
                                 |-> [Name |-> c]],
               !.isNil = FALSE]
      IN [pod |-> nitroPod, err |-> NoErr, pods |-> InsertPod(reg, nitroPod, tag)]

----------------------------------------------------------------------------
(* Enclave runtime gateway (pkg/cli).  Each operation takes the runtime's  *)
(* listing rt and the outcome o of the external process, and returns its   *)
(* Go results together with the listing afterwards.                        *)

Call(cmd, arg) == [cmd |-> cmd, arg |-> arg]

Names(rt) == {rt[i].EnclaveName : i \in DOMAIN rt}

RECURSIVE Without(_, _)
Without(rt, id) ==
  IF rt = <<>> THEN <<>>
  ELSE IF Head(rt).EnclaveID = id THEN Without(Tail(rt), id)
  ELSE <<Head(rt)>> \o Without(Tail(rt), id)

\* cli.DescribeEnclaves: o is TRUE when nitro-cli exits 0 with parseable output
DescribeEnclaves(rt, o) ==
  IF o THEN [infos |-> rt, err |-> NoErr] ELSE [infos |-> <<>>, err |-> "describe-enclaves failed"]

\* cli.RunEnclave: o is "tempfail" (the config file cannot be written, nitro-cli
\* is not started), "fail" (nitro-cli fails) or "ok".  The info printed by
\* run-enclave has no State field.
RunEnclave(rt, next, c, o) ==
  IF o = "tempfail"
  THEN [info |-> NoInfo, err |-> "create temp failed", rt |-> rt, next |-> next, calls |-> <<>>]
  ELSE IF o = "fail"
  THEN [info |-> NoInfo, err |-> "run-enclave failed", rt |-> rt, next |-> next,
        calls |-> <<Call("run-enclave", 0)>>]
  ELSE LET id == next + 1
           launched == [EnclaveName |-> c.EnclaveName, EnclaveID |-> id,
                        EnclaveCID |-> id + 15, State |-> enclaveStateRunning]
       IN [info |-> [launched EXCEPT !.State = ""], err |-> NoErr,
           rt |-> Append(rt, launched), next |-> id,
           calls |-> <<Call("run-enclave", 0)>>]

\* cli.TerminateEnclave: o is "fail" (nitro-cli fails), "true" or "false"
\* (the Terminated field of the response nitro-cli printed)
TerminateEnclave(rt, enclaveID, o) ==
  IF o = "fail"
  THEN [resp |-> [EnclaveID |-> 0, Terminated |-> FALSE], err |-> "terminate-enclave failed",
        rt |-> rt]
  ELSE IF o = "true"
  THEN [resp |-> [EnclaveID |-> enclaveID, Terminated |-> TRUE], err |-> NoErr,
        rt |-> Without(rt, enclaveID)]
  ELSE [resp |-> [EnclaveID |-> enclaveID, Terminated |-> FALSE], err |-> NoErr, rt |-> rt]

----------------------------------------------------------------------------
(* Pod *)

PodUnknown == "Unknown"

PodRunning == "Running"

PodFailed == "Failed"

\* Pod.buildEnclaveNameTag
podTag(pod) == buildEnclaveNameTag(pod.namespace, pod.name)

GetStatusAnyState(pod, rt, o) ==
  LET d == DescribeEnclaves(rt, o) IN
  IF d.err # NoErr THEN [Phase |-> PodUnknown, Ready |-> FALSE]
  ELSE IF \E i \in DOMAIN d.infos : d.infos[i].EnclaveName = podTag(pod)
       THEN [Phase |-> PodRunning, Ready |-> TRUE]
       ELSE [Phase |-> PodFailed, Ready |-> FALSE]

GetStatusCached(pod, rt, o) ==
  IF pod.info.EnclaveID # 0 THEN [Phase |-> PodRunning, Ready |-> TRUE]
  ELSE [Phase |-> PodFailed, Ready |-> FALSE]

\* Pod.GetStatus over the listing a fresh describe-enclaves returns
GetStatus(pod, rt, o) ==
  LET d == DescribeEnclaves(rt, o) IN
  IF d.err # NoErr THEN [Phase |-> PodUnknown, Ready |-> FALSE]
  ELSE IF \E i \in DOMAIN d.infos :
            /\ d.infos[i].EnclaveName = podTag(pod)
            /\ \/ d.infos[i].State = enclaveStateRunning
               \/ d.infos[i].State = enclaveStateTerminating
       THEN [Phase |-> PodRunning, Ready |-> TRUE]
       ELSE [Phase |-> PodFailed, Ready |-> FALSE]

TcpAddr(hostPort) == [net |-> "tcp", port |-> hostPort]

\* the offset is left out
VsockAddrNoOffset(cid) == [net |-> "vsock", port |-> cid]

\* logPort := uint32(info.EnclaveCID + 10000)
VsockAddr(cid) == [net |-> "vsock", port |-> cid + 10000]

\* nitro.NewVsockWriter(addr): the writer dials the address it is given
NewVsockWriter(addr) == addr

\* cmd/shell Listen, run in the enclave whose vsock.ContextID() is cid: the
\* address its log writer dials, fmt.Sprintf("vm(4):%d", 10000+cid)
ListenWriterAddr(cid) == NewVsockWriter([net |-> "vsock", port |-> 10000 + cid])

\* proxy.Serve(listener): the proxy loop runs as a long-lived background task
\* of the pod; the call returns at once and leaves the listener open until
\* the listener is closed.  The result is the set of listeners left open.
Serve(listener) == {listener}

\* Start, "Start the TCP proxies": one host listener per port mapping; a
\* mapping whose bind fails is skipped.  binds[i] is whether the host lets
\* the i-th bind succeed; a bound address cannot be bound again.
\* the loop stops at the first mapping whose bind fails
RECURSIVE startProxiesBreak(_, _, _, _)
startProxiesBreak(ports, i, binds, acc) ==
  IF i > Len(ports) THEN acc
  ELSE LET addr == TcpAddr(ports[i].hostPort)
           ok == binds[i] /\ addr \notin acc.open
           c == Append(acc.calls, Call("listen-tcp", ports[i].hostPort))
       IN IF ~ok THEN [acc EXCEPT !.calls = c]
          ELSE startProxiesBreak(ports, i + 1, binds,
                 [open |-> acc.open \cup Serve(addr),
                  listeners |-> Append(acc.listeners, addr), calls |-> c])

RECURSIVE startProxies(_, _, _, _)
startProxies(ports, i, binds, acc) ==
  IF i > Len(ports) THEN acc
  ELSE LET addr == TcpAddr(ports[i].hostPort)
           ok == binds[i] /\ addr \notin acc.open
       IN startProxies(ports, i + 1, binds,
            [open |-> IF ok THEN acc.open \cup Serve(addr) ELSE acc.open,
             listeners |-> IF ok THEN Append(acc.listeners, addr) ELSE acc.listeners,
             calls |-> Append(acc.calls, Call("listen-tcp", ports[i].hostPort))])

osRemoveNoop(files, f) == files

\* os.Remove(eif.Name())
osRemove(files, f) == files \ {f}

\* the log listener is opened before the result of the launch is checked
StartListenBeforeCheck(pod, rt, next, open, files, o, fileN) ==
  LET eif == [pattern |-> pod.config.EnclaveName, n |-> fileN]
      unchanged == [pod |-> pod, rt |-> rt, next |-> next, open |-> open]
  IN
  IF ~o.createTemp
  THEN unchanged @@ [err |-> "create temp failed", files |-> files,
                     calls |-> <<Call("createtemp", 0)>>]
  ELSE IF ~o.build
  THEN unchanged @@ [err |-> "failed to build enclave image",
                     files |-> osRemove(files \cup {eif}, eif),
                     calls |-> <<Call("createtemp", 0), Call("build", 0)>>]
  ELSE
    LET pod1 == [pod EXCEPT !.config.EifPath = eif, !.config.DebugMode = TRUE]
        r == RunEnclave(rt, next, pod1.config, o.run)
        c1 == <<Call("createtemp", 0), Call("build", 0)>> \o r.calls
        logAddr == VsockAddr(r.info.EnclaveCID)
    IN
    IF r.err # NoErr
    THEN [pod |-> [pod1 EXCEPT !.listeners = <<logAddr>>], rt |-> r.rt, next |-> r.next,
          open |-> open \cup {logAddr},
          err |-> "failed to run enclave", files |-> osRemove(files \cup {eif}, eif),
          calls |-> Append(c1, Call("listen-vsock", logAddr.port))]
    ELSE
      LET px == startProxies(pod1.ports, 1, o.binds,
                             [open |-> open, listeners |-> pod1.listeners, calls |-> c1])
          logOk == o.vsock /\ logAddr \notin px.open
          pod2 == [pod1 EXCEPT
                     !.listeners = IF logOk THEN Append(px.listeners, logAddr)
                                   ELSE px.listeners,
                     !.info = r.info]
      IN [pod |-> pod2, rt |-> r.rt, next |-> r.next,
          open |-> IF logOk THEN px.open \cup {logAddr} ELSE px.open,
          err |-> NoErr, files |-> osRemove(files \cup {eif}, eif),
          calls |-> Append(px.calls, Call("listen-vsock", logAddr.port))]

\* Pod.Start.  o gives the outcome of every external step: createTemp, build,
\* run, binds, vsock; fileN is the unique suffix os.CreateTemp picks.
Start(pod, rt, next, open, files, o, fileN) ==
  LET eif == [pattern |-> pod.config.EnclaveName, n |-> fileN]
      unchanged == [pod |-> pod, rt |-> rt, next |-> next, open |-> open]
  IN
  IF ~o.createTemp
  THEN unchanged @@ [err |-> "create temp failed", files |-> files,
                     calls |-> <<Call("createtemp", 0)>>]
  ELSE IF ~o.build
  THEN unchanged @@ [err |-> "failed to build enclave image",
                     files |-> osRemove(files \cup {eif}, eif),
                     calls |-> <<Call("createtemp", 0), Call("build", 0)>>]
  ELSE
    LET pod1 == [pod EXCEPT !.config.EifPath = eif, !.config.DebugMode = TRUE]
        r == RunEnclave(rt, next, pod1.config, o.run)
        c1 == <<Call("createtemp", 0), Call("build", 0)>> \o r.calls
    IN
    IF r.err # NoErr
    THEN [pod |-> pod1, rt |-> r.rt, next |-> r.next, open |-> open,
          err |-> "failed to run enclave", files |-> osRemove(files \cup {eif}, eif),
          calls |-> c1]
    ELSE
      LET px == startProxies(pod1.ports, 1, o.binds,
                             [open |-> open, listeners |-> pod1.listeners, calls |-> c1])
          logAddr == VsockAddr(r.info.EnclaveCID)
          logOk == o.vsock /\ logAddr \notin px.open
          pod2 == [pod1 EXCEPT
                     !.listeners = IF logOk THEN Append(px.listeners, logAddr)
                                   ELSE px.listeners,
                     !.info = r.info]
      IN [pod |-> pod2, rt |-> r.rt, next |-> r.next,
          open |-> IF logOk THEN px.open \cup {logAddr} ELSE px.open,
          err |-> NoErr, files |-> osRemove(files \cup {eif}, eif),
          calls |-> Append(px.calls, Call("listen-vsock", logAddr.port))]

\* the listeners are closed and the pod removed whether or not terminate failed
StopCleansUpOnFailure(pod, reg, rt, open, o) ==
  LET status == GetStatus(pod, rt, o.list)
      running == status.Phase = PodRunning
      t == TerminateEnclave(rt, pod.info.EnclaveID, o.terminate)
      c1 == <<Call("describe-enclaves", 0)>>
      c2 == IF running THEN Append(c1, Call("terminate-enclave", pod.info.EnclaveID)) ELSE c1
  IN [err |-> IF running /\ t.err # NoErr THEN "failed to stop enclave" ELSE NoErr,
      pods |-> RemovePod(reg, podTag(pod)),
      rt |-> IF running THEN t.rt ELSE rt,
      open |-> open \ {pod.listeners[i] : i \in DOMAIN pod.listeners},
      calls |-> c2, status |-> status,
      resp |-> IF running THEN t.resp ELSE [EnclaveID |-> 0, Terminated |-> FALSE]]

\* Pod.Stop.  o gives the outcome of describe-enclaves (list) and of
\* terminate-enclave (terminate, used only when terminate is called).
Stop(pod, reg, rt, open, o) ==
  LET status == GetStatus(pod, rt, o.list)
      running == status.Phase = PodRunning
      t == TerminateEnclave(rt, pod.info.EnclaveID, o.terminate)
      c1 == <<Call("describe-enclaves", 0)>>
      c2 == IF running THEN Append(c1, Call("terminate-enclave", pod.info.EnclaveID)) ELSE c1
  IN
  IF running /\ t.err # NoErr
  THEN [err |-> "failed to stop enclave", pods |-> reg, rt |-> t.rt, open |-> open,
        calls |-> c2, status |-> status, resp |-> t.resp]
  ELSE [err |-> NoErr,
        pods |-> RemovePod(reg, podTag(pod)),
        rt |-> IF running THEN t.rt ELSE rt,
        open |-> open \ {pod.listeners[i] : i \in DOMAIN pod.listeners},
        calls |-> c2, status |-> status,
        resp |-> IF running THEN t.resp ELSE [EnclaveID |-> 0, Terminated |-> FALSE]]

----------------------------------------------------------------------------
(* Node *)

\* the rebuilt pods are registered without the listing's EnclaveInfo
RECURSIVE loadPodsNoInfo(_, _, _)
loadPodsNoInfo(infos, i, acc) ==
  IF i > Len(infos) THEN acc
  ELSE LET tag == infos[i].EnclaveName
           r == NewPodFromTag(tag)
       IN IF r.err # NoErr THEN loadPodsNoInfo(infos, i + 1, acc)
          ELSE loadPodsNoInfo(infos, i + 1, InsertPod(acc, r.pod, tag))

\* the loop of Node.loadPodState over the listing, from entry i on
RECURSIVE loadPods(_, _, _)
loadPods(infos, i, acc) ==
  IF i > Len(infos) THEN acc
  ELSE LET tag == infos[i].EnclaveName
           r == NewPodFromTag(tag)
       IN IF r.err # NoErr THEN loadPods(infos, i + 1, acc)
          ELSE loadPods(infos, i + 1, InsertPod(acc, [r.pod EXCEPT !.info = infos[i]], tag))

loadPodStateKeepAll(rt, o) ==
  LET d == DescribeEnclaves(rt, o) IN
  IF d.err # NoErr THEN [err |-> "failed to load pod state", pods |-> <<>>]
  ELSE [err |-> NoErr,
        pods |-> [t \in Names(d.infos) |-> [NewPodFromTag(t).pod EXCEPT !.isNil = FALSE]]]

\* a failed listing is treated as an empty one
loadPodStateSwallowError(rt, o) ==
  LET d == DescribeEnclaves(rt, o) IN
  [err |-> NoErr, pods |-> loadPods(d.infos, 1, <<>>)]

\* Node.loadPodState (called by NewNode)
loadPodState(rt, o) ==
  LET d == DescribeEnclaves(rt, o) IN
  IF d.err # NoErr THEN [err |-> "failed to load pod state", pods |-> <<>>]
  ELSE [err |-> NoErr, pods |-> loadPods(d.infos, 1, <<>>)]

----------------------------------------------------------------------------
(* Inputs *)

\* Kubernetes namespaces and pod names are DNS-1123 names: no "_"
PodNamespaces == {<<"a">>}

PodNames == {<<"a">>, <<"b">>}

OwnerRefs ==
  {[APIVersion |-> "apps/v1", Kind |-> "DaemonSet"],
   [APIVersion |-> "apps/v1", Kind |-> "ReplicaSet"],
   [APIVersion |-> "extensions/v1beta1", Kind |-> "DaemonSet"]}

Ports ==
  <<[containerPort |-> 80, hostPort |-> 8080], [containerPort |-> 81, hostPort |-> 8081]>>

\* the workloads CreatePod is called with: one container exposing Ports, or
\* two containers
ContainerLists ==
  {<<[Name |-> "c", Ports |-> Ports, Resources |-> NoRequirements]>>,
   <<[Name |-> "c", Ports |-> <<>>, Resources |-> NoRequirements],
     [Name |-> "d", Ports |-> <<>>, Resources |-> NoRequirements]>>}

Workloads ==
  [Namespace : PodNamespaces, Name : PodNames,
   OwnerReferences : {{}, {[APIVersion |-> "apps/v1", Kind |-> "DaemonSet"]}},
   Containers : ContainerLists]

\* the outcomes of the external steps of CreatePod, up to the first one that
\* fails: createTemp, build, run, the bind of each port mapping (binds), the
\* bind of the log listener (vsock), the describe-enclaves of GetStatus (list)
DefaultOutcome ==
  [createTemp |-> TRUE, build |-> TRUE, run |-> "ok", binds |-> <<>>, vsock |-> TRUE,
   list |-> TRUE]

CreateOutcomes(w) ==
  IF NewPod(<<>>, w).err # NoErr THEN {DefaultOutcome}
  ELSE LET n == Len(allPorts(w.Containers))
           allBound == [DefaultOutcome EXCEPT !.binds = [i \in 1..n |-> TRUE]]
       IN {[DefaultOutcome EXCEPT !.createTemp = FALSE],
           [DefaultOutcome EXCEPT !.build = FALSE],
           [DefaultOutcome EXCEPT !.run = "fail"],
           [DefaultOutcome EXCEPT !.run = "tempfail"],
           [allBound EXCEPT !.vsock = FALSE],
           [allBound EXCEPT !.list = FALSE]}
          \cup {[DefaultOutcome EXCEPT !.binds = b] : b \in [1..n -> BOOLEAN]}

\* the outcomes of the external steps of DeletePod: describe-enclaves (list)
\* and, when it is called, terminate-enclave (terminate)
StopOutcomes ==
  {[list |-> FALSE, terminate |-> "fail"]}
  \cup {[list |-> TRUE, terminate |-> t] : t \in {"fail", "true", "false"}}

\* Enclaves that may already be running when the process starts.  The
\* runtime keeps enclave names unique.
InitialEnclaves ==
  << [EnclaveName |-> buildEnclaveNameTag(<<"a">>, <<"a">>), EnclaveID |-> 1,
      EnclaveCID |-> 16, State |-> enclaveStateRunning],
     [EnclaveName |-> buildEnclaveNameTag(<<"a">>, <<"b">>) \o <<"_", "a">>, EnclaveID |-> 2,
      EnclaveCID |-> 17, State |-> enclaveStateRunning],
     [EnclaveName |-> enclaveNamePrefix \o <<"_", "a">>, EnclaveID |-> 3,
      EnclaveCID |-> 18, State |-> enclaveStateRunning] >>

NoWorkload == [Namespace |-> <<>>, Name |-> <<>>, OwnerReferences |-> {}, Containers |-> <<>>]

\* ret: the operation, the tag it was called for, its results (err, status)
\* and what it observed: the pod it acted on as it left it, whether its
\* describe-enclaves succeeded, the Terminated field terminate-enclave printed
RetNone ==
  [op |-> "none", tag |-> <<>>, err |-> NoErr, status |-> "",
   pod |-> NilPod, listOk |-> FALSE, terminated |-> "none"]

NoRun == [done |-> FALSE, exitOk |-> FALSE, err |-> NoErr, from |-> 0, value |-> <<>>]

\* the gateway harness variables, not in use
RunOff == stdout = <<>> /\ stop = "{" /\ runRes = NoRun

\* a Go map: the zero value (nil) until it is made; kv is its content
NilMap == [made |-> FALSE, kv |-> <<>>]

\* the build harness before newContainer and BuildEif are called
NoBuild ==
  [done |-> FALSE, Command |-> <<>>, Args |-> <<>>, Env |-> <<>>, o |-> "ok",
   err |-> NoErr, cmdFile |-> <<>>, made |-> {}, eif |-> FALSE,
   Environment |-> NilMap, panic |-> FALSE]

\* the build harness variable, not in use
BuildOff == bld = NoBuild

\* the harness variables of the codec and of NewPod, not in use
CodecOff ==
  /\ cMode = "off" /\ cNs = <<>> /\ cName = <<>> /\ cFields = <<>> /\ cTag = <<>>
  /\ cRes = [pod |-> NilPod, err |-> NoErr]
  /\ wl = NoWorkload

\* the other harness variables, not in use
AuxOff ==
  /\ streams = <<>>
  /\ mu = [w |-> FALSE, r |-> 0]
  /\ gor = <<>>
  /\ reqs = NoRequirements
  /\ def = NoDefinition
  /\ RunOff
  /\ BuildOff

----------------------------------------------------------------------------
(* Actions *)

Init ==
  /\ phase = "boot"
  /\ pods = <<>>
  /\ enclaves \in {<<>>, InitialEnclaves}
  /\ nextId = Len(InitialEnclaves)
  /\ openListeners = {}
  /\ tempFiles = {}
  /\ ret = RetNone
  /\ calls = <<>>
  /\ nOps = 0
  /\ nEnv = 0
  /\ cMode = "off" /\ cNs = <<>> /\ cName = <<>> /\ cFields = <<>> /\ cTag = <<>>
  /\ cRes = [pod |-> NilPod, err |-> NoErr]
  /\ wl = NoWorkload
  /\ AuxOff
  /\ smtActive \in BOOLEAN

\* NewEnclaveProviderEnclaveConfig -> NewNode -> loadPodState.  When NewNode
\* fails no provider is created: the process exits and is started again.
NewNode(o) ==
  /\ phase = "boot"
  /\ LET r == loadPodState(enclaves, o) IN
       /\ phase' = IF r.err = NoErr THEN "up" ELSE "boot"
       /\ pods' = r.pods
       /\ ret' = [RetNone EXCEPT !.op = "NewNode", !.err = r.err, !.listOk = o]
  /\ calls' = <<Call("describe-enclaves", 0)>>
  /\ UNCHANGED <<enclaves, nextId, openListeners, tempFiles, nOps, nEnv>>
  /\ UNCHANGED harnessVars

\* the process exits and is started again: its memory and sockets are gone,
\* the runtime's enclaves stay
Restart ==
  /\ phase = "up"
  /\ phase' = "boot"
  /\ pods' = <<>>
  /\ openListeners' = {}
  /\ ret' = RetNone
  /\ calls' = <<>>
  /\ UNCHANGED <<enclaves, nextId, tempFiles, nOps, nEnv>>
  /\ UNCHANGED harnessVars

\* EnclaveProvider.CreatePod
CreatePod(w, o) ==
  /\ phase = "up"
  /\ nOps < MaxOps
  /\ o.run = "ok" => buildEnclaveNameTag(w.Namespace, w.Name) \notin Names(enclaves)
  /\ LET tag == buildEnclaveNameTag(w.Namespace, w.Name)
         n == NewPod(pods, w)
     IN
     IF n.err # NoErr
     THEN /\ pods' = n.pods
          /\ ret' = [RetNone EXCEPT !.op = "CreatePod", !.tag = tag, !.err = n.err]
          /\ calls' = <<>>
          /\ UNCHANGED <<enclaves, nextId, openListeners, tempFiles>>
     ELSE
       LET s == Start(n.pod, enclaves, nextId, openListeners, tempFiles, o, nOps + 1)
           reg == InsertPod(n.pods, s.pod, tag)
       IN
       /\ pods' = reg
       /\ enclaves' = s.rt
       /\ nextId' = s.next
       /\ openListeners' = s.open
       /\ tempFiles' = s.files
       /\ IF s.err # NoErr
          THEN /\ ret' = [RetNone EXCEPT !.op = "CreatePod", !.tag = tag, !.err = s.err,
                                         !.pod = s.pod]
               /\ calls' = s.calls
          ELSE /\ ret' = [RetNone EXCEPT !.op = "CreatePod", !.tag = tag, !.pod = s.pod,
                                         !.status = GetStatus(s.pod, s.rt, o.list).Phase,
                                         !.listOk = o.list]
               /\ calls' = Append(s.calls, Call("describe-enclaves", 0))
  /\ nOps' = nOps + 1
  /\ UNCHANGED <<phase, nEnv>>
  /\ UNCHANGED harnessVars

\* EnclaveProvider.DeletePod
DeletePod(namespace, name, o) ==
  /\ phase = "up"
  /\ nOps < MaxOps
  /\ LET tag == buildEnclaveNameTag(namespace, name)
         g == GetPod(pods, namespace, name)
     IN
     IF g.err # NoErr
     THEN /\ ret' = [RetNone EXCEPT !.op = "DeletePod", !.tag = tag, !.err = g.err]
          /\ calls' = <<>>
          /\ UNCHANGED <<pods, enclaves, openListeners>>
     ELSE
       LET s == Stop(g.pod, pods, enclaves, openListeners, o) IN
       /\ o.terminate = "true" =>
            \E i \in DOMAIN enclaves : enclaves[i].EnclaveID = g.pod.info.EnclaveID
       /\ pods' = s.pods
       /\ enclaves' = s.rt
       /\ openListeners' = s.open
       /\ ret' = [RetNone EXCEPT !.op = "DeletePod", !.tag = tag, !.err = s.err,
                                 !.pod = g.pod, !.status = s.status.Phase,
                                 !.listOk = o.list,
                                 !.terminated =
                                    IF Call("terminate-enclave", g.pod.info.EnclaveID)
                                         \in {s.calls[i] : i \in DOMAIN s.calls}
                                       /\ o.terminate # "fail"
                                    THEN o.terminate ELSE "none"]
       /\ calls' = s.calls
  /\ nOps' = nOps + 1
  /\ UNCHANGED <<phase, nextId, tempFiles, nEnv>>
  /\ UNCHANGED harnessVars

\* EnclaveProvider.GetPodStatus -> GetPod -> Node.GetPod, Pod.GetSpec -> Pod.GetStatus
GetPodStatus(namespace, name, o) ==
  /\ phase = "up"
  /\ nOps < MaxOps
  /\ LET tag == buildEnclaveNameTag(namespace, name)
         g == GetPod(pods, namespace, name)
     IN
     IF g.err # NoErr
     THEN /\ ret' = [RetNone EXCEPT !.op = "GetPodStatus", !.tag = tag, !.err = g.err]
          /\ calls' = <<>>
     ELSE /\ ret' = [RetNone EXCEPT !.op = "GetPodStatus", !.tag = tag, !.pod = g.pod,
                                    !.status = GetStatus(g.pod, enclaves, o).Phase,
                                    !.listOk = o]
          /\ calls' = <<Call("describe-enclaves", 0)>>
  /\ nOps' = nOps + 1
  /\ UNCHANGED <<phase, pods, enclaves, nextId, openListeners, tempFiles, nEnv>>
  /\ UNCHANGED harnessVars

\* Pod.GetStatus reads the State only of entries named with a pod's tag, and
\* every pod's tag has exactly three fields
Watched(info) == Len(Split(info.EnclaveName)) = 3

\* the runtime: an enclave starts shutting down or changes to another state
EnclaveChangesState(i, st) ==
  /\ nEnv < MaxEnv
  /\ i \in DOMAIN enclaves
  /\ Watched(enclaves[i])
  /\ enclaves[i].State # st
  /\ enclaves' = [enclaves EXCEPT ![i].State = st]
  /\ nEnv' = nEnv + 1
  /\ UNCHANGED <<phase, pods, nextId, openListeners, tempFiles, ret, calls, nOps>>
  /\ UNCHANGED harnessVars

\* the runtime: an enclave exits and is no longer listed
EnclaveExits(i) ==
  /\ nEnv < MaxEnv
  /\ i \in DOMAIN enclaves
  /\ Watched(enclaves[i])
  /\ enclaves' = Without(enclaves, enclaves[i].EnclaveID)
  /\ nEnv' = nEnv + 1
  /\ UNCHANGED <<phase, pods, nextId, openListeners, tempFiles, ret, calls, nOps>>
  /\ UNCHANGED harnessVars

Next ==
  \/ \E o \in BOOLEAN : NewNode(o)
  \/ Restart
  \/ \E w \in Workloads : \E o \in CreateOutcomes(w) : CreatePod(w, o)
  \/ \E ns \in PodNamespaces, n \in PodNames : \E o \in StopOutcomes : DeletePod(ns, n, o)
  \/ \E ns \in PodNamespaces, n \in PodNames : \E o \in BOOLEAN : GetPodStatus(ns, n, o)
  \/ \E i \in 1..Len(InitialEnclaves) + MaxOps :
       \E st \in {enclaveStateTerminating, "EMPTY"} : EnclaveChangesState(i, st)
  \/ \E i \in 1..Len(InitialEnclaves) + MaxOps : EnclaveExits(i)

Spec == Init /\ [][Next]_vars

----------------------------------------------------------------------------
(* Tag codec harness: NewPodFromTag and buildEnclaveNameTag applied to     *)
(* bounded sets of strings.                                                *)

Strings == UNION {Str(n) : n \in 0..MaxStrLen}

\* fields without "_"; a raw input string is the join of up to MaxFields of them
Fields == {enclaveNamePrefix, <<>>, <<"a">>, <<"v", "k">>}

FieldSeqs == UNION {[1..n -> Fields] : n \in 1..MaxFields}

NoSep(str) == \A i \in DOMAIN str : str[i] # "_"

CodecInit ==
  /\ phase = "boot" /\ pods = <<>> /\ enclaves = <<>> /\ nextId = 0
  /\ openListeners = {} /\ tempFiles = {} /\ ret = RetNone /\ calls = <<>>
  /\ nOps = 0 /\ nEnv = 0
  /\ \/ cMode = "pair" /\ cNs \in Strings /\ cName \in Strings /\ cFields = <<>>
     \/ cMode = "raw" /\ cNs = <<>> /\ cName = <<>> /\ cFields \in FieldSeqs
  /\ cTag = <<>>
  /\ cRes = [pod |-> NilPod, err |-> NoErr]
  /\ wl = NoWorkload
  /\ AuxOff
  /\ smtActive = FALSE

\* buildEnclaveNameTag(cNs, cName)
Encode ==
  /\ cMode = "pair"
  /\ cTag' = buildEnclaveNameTag(cNs, cName)
  /\ cMode' = "pair-tagged"
  /\ UNCHANGED <<cNs, cName, cFields, cRes, wl, smtActive>>
  /\ UNCHANGED auxVars
  /\ UNCHANGED nodeVars

\* an arbitrary enclave name
Raw ==
  /\ cMode = "raw"
  /\ cTag' = Join(cFields)
  /\ cMode' = "raw-tagged"
  /\ UNCHANGED <<cNs, cName, cFields, cRes, wl, smtActive>>
  /\ UNCHANGED auxVars
  /\ UNCHANGED nodeVars

\* NewPodFromTag(node, cTag)
Decode ==
  /\ cMode \in {"pair-tagged", "raw-tagged"}
  /\ cRes' = NewPodFromTag(cTag)
  /\ cMode' = IF cMode = "pair-tagged" THEN "pair-decoded" ELSE "raw-decoded"
  /\ UNCHANGED <<cNs, cName, cFields, cTag, wl, smtActive>>
  /\ UNCHANGED auxVars
  /\ UNCHANGED nodeVars

CodecNext == Encode \/ Raw \/ Decode

SpecCodec == CodecInit /\ [][CodecNext]_vars

----------------------------------------------------------------------------
(* NewPod harness: NewPod applied to bounded sets of workload descriptors   *)
(* and registries.                                                         *)

HarnessPortLists == {<<>>, <<Ports[1]>>, Ports}

HarnessWorkloads ==
  [Namespace : PodNamespaces, Name : PodNames,
   OwnerReferences : SUBSET OwnerRefs,
   Containers : {<<>>}
                \cup {<<[Name |-> "c", Ports |-> ps, Resources |-> NoRequirements]>> :
                        ps \in HarnessPortLists}
                \cup {<<[Name |-> "c", Ports |-> ps, Resources |-> NoRequirements],
                         [Name |-> "d", Ports |-> <<>>, Resources |-> NoRequirements]>> :
                        ps \in HarnessPortLists}]

\* registries NewPod is applied to: empty, reconciled, and each with the pod a/b
HarnessRegistries ==
  LET reconciled == loadPods(InitialEnclaves, 1, <<>>)
      tag == buildEnclaveNameTag(<<"a">>, <<"b">>)
      pod == [NilPod EXCEPT !.namespace = <<"a">>, !.name = <<"b">>,
                            !.config.EnclaveName = tag, !.isNil = FALSE]
  IN {<<>>, reconciled, InsertPod(<<>>, pod, tag), InsertPod(reconciled, pod, tag)}

NewPodInit ==
  /\ phase = "up" /\ pods \in HarnessRegistries /\ enclaves = <<>> /\ nextId = 0
  /\ openListeners = {} /\ tempFiles = {} /\ ret = RetNone /\ calls = <<>>
  /\ nOps = 0 /\ nEnv = 0
  /\ cMode = "off" /\ cNs = <<>> /\ cName = <<>> /\ cFields = <<>> /\ cTag = <<>>
  /\ cRes = [pod |-> NilPod, err |-> NoErr]
  /\ wl \in HarnessWorkloads
  /\ AuxOff
  /\ smtActive = FALSE

\* NewPod(ctx, node, wl)
ApplyNewPod ==
  /\ ret.op = "none"
  /\ LET n == NewPod(pods, wl) IN
       /\ pods' = n.pods
       /\ ret' = [RetNone EXCEPT !.op = "NewPod",
                                 !.tag = buildEnclaveNameTag(wl.Namespace, wl.Name),
                                 !.err = n.err, !.pod = n.pod]
  /\ UNCHANGED <<phase, enclaves, nextId, openListeners, tempFiles, calls, nOps, nEnv>>
  /\ UNCHANGED harnessVars

NewPodNext == ApplyNewPod

SpecNewPod == NewPodInit /\ [][NewPodNext]_vars

----------------------------------------------------------------------------
(* Console harness: Node.GetContainerLogs and the stream cli.Console        *)
(* returns, on bounded registries.                                         *)

\* cli.Console(enclaveID): builds the command and the pipe and returns the
\* stream; it never calls cmd.Start, so cmd.Process stays nil and nothing is
\* ever written to the pipe.  o is the outcome of os.Pipe.
Console(enclaveID, o) ==
  IF o = "pipefail"
  THEN [stream |-> <<>>, err |-> "pipe"]
  ELSE [stream |-> <<[id |-> enclaveID, proc |-> "nil", pipe |-> "open", close |-> "none"]>>,
        err |-> NoErr]

\* Node.GetContainerLogs(namespace, podName, _, opts): the registry is read
\* without the lock; with opts.Follow unset the stream is wrapped in a
\* truncatedReader
GetContainerLogs(namespace, podName, follow, o) ==
  /\ Len(streams) < MaxStreams
  /\ LET tag == buildEnclaveNameTag(namespace, podName) IN
       IF tag \notin DOMAIN pods
       THEN /\ ret' = [RetNone EXCEPT !.op = "GetContainerLogs", !.tag = tag,
                                      !.err = "not found"]
            /\ UNCHANGED streams
       ELSE LET c == Console(pods[tag].info.EnclaveID, o) IN
            /\ ret' = [RetNone EXCEPT !.op = "GetContainerLogs", !.tag = tag,
                                      !.err = c.err]
            /\ streams' = streams \o [i \in DOMAIN c.stream |->
                                        c.stream[i] @@ [truncated |-> ~follow]]
  /\ UNCHANGED <<phase, pods, enclaves, nextId, openListeners, tempFiles, calls, nOps, nEnv>>
  /\ UNCHANGED <<cMode, cNs, cName, cFields, cTag, cRes, wl, mu, gor, smtActive, reqs, def>>
  /\ UNCHANGED <<stdout, stop, runRes, bld>>

\* consoleReadCloser.Close (also through truncatedReader.Close): the first
\* statement is r.cmd.Process.Kill() on the nil Process, which dereferences
\* nil: Close panics before Wait and before the pipe ends are closed.
\* (Read never returns: the pipe's write end is open and has no writer.)
Close(i) ==
  /\ i \in DOMAIN streams
  /\ streams[i].close = "none"
  /\ streams' = [streams EXCEPT ![i].close = IF streams[i].proc = "nil" THEN "panic"
                                             ELSE "returned"]
  /\ ret' = [RetNone EXCEPT !.op = "Close"]
  /\ UNCHANGED <<phase, pods, enclaves, nextId, openListeners, tempFiles, calls, nOps, nEnv>>
  /\ UNCHANGED <<cMode, cNs, cName, cFields, cTag, cRes, wl, mu, gor, smtActive, reqs, def>>
  /\ UNCHANGED <<stdout, stop, runRes, bld>>

ConsoleInit ==
  /\ phase = "up" /\ pods \in HarnessRegistries /\ enclaves = <<>> /\ nextId = 0
  /\ openListeners = {} /\ tempFiles = {} /\ ret = RetNone /\ calls = <<>>
  /\ nOps = 0 /\ nEnv = 0
  /\ CodecOff
  /\ AuxOff
  /\ smtActive = FALSE

ConsoleNext ==
  \/ \E namespace \in PodNamespaces, podName \in PodNames, follow \in BOOLEAN,
        o \in {"ok", "pipefail"} : GetContainerLogs(namespace, podName, follow, o)
  \/ \E i \in 1..MaxStreams : Close(i)

SpecConsole == ConsoleInit /\ [][ConsoleNext]_vars

----------------------------------------------------------------------------
(* Registry-lock harness: goroutines calling GetPod, GetPods, InsertPod and *)
(* RemovePod concurrently, one step per lock operation and per map access. *)
(* A map write takes two steps, so that an access made in between is an    *)
(* access to a half-updated map.                                           *)

Procs == 1..MaxProcs

\* sync.RWMutex: RLock is granted while no writer holds the lock, Lock while
\* nobody holds it
RLockFree(m) == ~m.w

LockFreeIgnoringReaders(m) == ~m.w

LockFree(m) == ~m.w /\ m.r = 0

RLock(m) == [m EXCEPT !.r = @ + 1]

RUnlock(m) == [m EXCEPT !.r = @ - 1]

Lock(m) == [m EXCEPT !.w = TRUE]

Unlock(m) == [m EXCEPT !.w = FALSE]

Readers == {"GetPod", "GetPods"}

Writers == {"InsertPod", "RemovePod"}

\* a pod as a caller of InsertPod builds it
CallerPod(name) ==
  [NilPod EXCEPT !.namespace = <<"a">>, !.name = name,
                 !.config.EnclaveName = buildEnclaveNameTag(<<"a">>, name),
                 !.isNil = FALSE]

NoResult == [alias |-> FALSE, items |-> <<>>]

Idle ==
  [pc |-> "idle", op |-> "none", name |-> <<>>, visited |-> {}, items |-> <<>>,
   got |-> [pod |-> NilPod, err |-> NoErr], raced |-> FALSE,
   last |-> [op |-> "none", pods |-> NoResult]]

\* some goroutine is between the two halves of a map write
MapBusy == \E q \in Procs : gor[q].pc = "writing"

GetPodsResultAlias(items) == [alias |-> TRUE, items |-> <<>>]

\* GetPods: pods := make([]*Pod, 0, len(n.pods)); append...; return pods
GetPodsResult(items) == [alias |-> FALSE, items |-> items]

\* what a holder of a GetPods result sees in it
Observed(res, reg) ==
  IF res.alias THEN {reg[t] : t \in DOMAIN reg}
  ELSE {res.items[i] : i \in DOMAIN res.items}

lockHarnessRest ==
  <<phase, enclaves, nextId, openListeners, tempFiles, ret, calls, nEnv,
    cMode, cNs, cName, cFields, cTag, cRes, wl, streams, smtActive, reqs, def,
    stdout, stop, runRes, bld>>

\* n.RLock() / n.Lock() at the head of the four operations
Acquire(p, op, name) ==
  /\ gor[p].pc = "idle"
  /\ nOps < MaxCalls
  /\ IF op \in Readers THEN RLockFree(mu) /\ mu' = RLock(mu)
                        ELSE LockFree(mu) /\ mu' = Lock(mu)
  /\ gor' = [gor EXCEPT ![p] = [Idle EXCEPT !.pc = "locked", !.op = op, !.name = name,
                                            !.last = gor[p].last]]
  /\ nOps' = nOps + 1
  /\ UNCHANGED pods
  /\ UNCHANGED lockHarnessRest

\* GetPod: pod, ok := n.pods[tag]
GetPodRead(p) ==
  /\ gor[p].pc = "locked" /\ gor[p].op = "GetPod"
  /\ gor' = [gor EXCEPT ![p].got = GetPod(pods, <<"a">>, gor[p].name),
                        ![p].raced = MapBusy,
                        ![p].pc = "done"]
  /\ UNCHANGED <<pods, mu, nOps>>
  /\ UNCHANGED lockHarnessRest

\* GetPods: one iteration of for _, pod := range n.pods, in any order
GetPodsIter(p) ==
  /\ gor[p].pc = "locked" /\ gor[p].op = "GetPods"
  /\ \E t \in DOMAIN pods \ gor[p].visited :
       gor' = [gor EXCEPT ![p].visited = @ \cup {t},
                          ![p].items = Append(@, pods[t]),
                          ![p].raced = @ \/ MapBusy]
  /\ UNCHANGED <<pods, mu, nOps>>
  /\ UNCHANGED lockHarnessRest

\* InsertPod / RemovePod: the map write begins
MapWriteBegin(p) ==
  /\ gor[p].pc = "locked" /\ gor[p].op \in Writers
  /\ gor' = [gor EXCEPT ![p].pc = "writing", ![p].raced = MapBusy]
  /\ UNCHANGED <<pods, mu, nOps>>
  /\ UNCHANGED lockHarnessRest

\* InsertPod: n.pods[tag] = pod; RemovePod: delete(n.pods, tag)
MapWriteEnd(p) ==
  /\ gor[p].pc = "writing"
  /\ LET tag == buildEnclaveNameTag(<<"a">>, gor[p].name) IN
       pods' = IF gor[p].op = "InsertPod" THEN InsertPod(pods, CallerPod(gor[p].name), tag)
               ELSE RemovePod(pods, tag)
  /\ gor' = [gor EXCEPT ![p].pc = "done"]
  /\ UNCHANGED <<mu, nOps>>
  /\ UNCHANGED lockHarnessRest

\* the return of each operation, with its deferred RUnlock / Unlock
Return(p) ==
  /\ \/ gor[p].pc = "done"
     \/ gor[p].pc = "locked" /\ gor[p].op = "GetPods" /\ DOMAIN pods \subseteq gor[p].visited
  /\ mu' = IF gor[p].op \in Readers THEN RUnlock(mu) ELSE Unlock(mu)
  /\ gor' = [gor EXCEPT ![p] = [Idle EXCEPT
                !.raced = gor[p].raced,
                !.last = [op |-> gor[p].op,
                          pods |-> IF gor[p].op = "GetPods" THEN GetPodsResult(gor[p].items)
                                   ELSE NoResult]]]
  /\ UNCHANGED <<pods, nOps>>
  /\ UNCHANGED lockHarnessRest

LockInit ==
  /\ phase = "up" /\ pods \in HarnessRegistries /\ enclaves = <<>> /\ nextId = 0
  /\ openListeners = {} /\ tempFiles = {} /\ ret = RetNone /\ calls = <<>>
  /\ nOps = 0 /\ nEnv = 0
  /\ CodecOff
  /\ streams = <<>> /\ reqs = NoRequirements /\ def = NoDefinition
  /\ RunOff
  /\ BuildOff
  /\ smtActive = FALSE
  /\ mu = [w |-> FALSE, r |-> 0]
  /\ gor = [p \in Procs |-> Idle]

LockNext ==
  \E p \in Procs :
     \/ \E name \in PodNames, op \in {"GetPod", "InsertPod", "RemovePod"} : Acquire(p, op, name)
     \/ Acquire(p, "GetPods", <<>>)
     \/ GetPodRead(p)
     \/ GetPodsIter(p)
     \/ MapWriteBegin(p)
     \/ MapWriteEnd(p)
     \/ Return(p)

SpecLock == LockInit /\ [][LockNext]_vars

\* Node.GetContainerLogs: pod, ok := n.pods[tag], with no lock operation
\* before or after it
GetContainerLogsRead(p, name) ==
  /\ gor[p].pc = "idle"
  /\ nOps < MaxCalls
  /\ gor' = [gor EXCEPT ![p].got = GetPod(pods, <<"a">>, name),
                        ![p].raced = MapBusy,
                        ![p].last = [op |-> "GetContainerLogs", pods |-> NoResult]]
  /\ nOps' = nOps + 1
  /\ UNCHANGED <<pods, mu>>
  /\ UNCHANGED lockHarnessRest

\* the four locked operations together with GetContainerLogs
LogsLockNext ==
  \/ LockNext
  \/ \E p \in Procs, name \in PodNames : GetContainerLogsRead(p, name)

SpecLogsLock == LockInit /\ [][LogsLockNext]_vars

----------------------------------------------------------------------------
(* Resource harness: setResourceRequirements applied to bounded sets of     *)
(* requests and limits.  Kubernetes admits no negative quantity.           *)

\* ScaledValue(Milli) of the CPU quantities "0", "500m", "1", "1500m", "3"
CpuMillis == {0, 500, 1000, 1500, 3000}

\* Value() of the memory quantities, up to the largest a Quantity holds
MemBytes == {0, 1, MiB, MiB + 1, MaxInt - MiB + 1, MaxInt}

Opt(values) == {Absent} \cup [ok : {TRUE}, v : values]

Requirements ==
  [Limits : [cpu : Opt(CpuMillis), memory : Opt(MemBytes)],
   Requests : [cpu : Opt(CpuMillis), memory : Opt(MemBytes)]]

ResInit ==
  /\ phase = "boot" /\ pods = <<>> /\ enclaves = <<>> /\ nextId = 0
  /\ openListeners = {} /\ tempFiles = {} /\ ret = RetNone /\ calls = <<>>
  /\ nOps = 0 /\ nEnv = 0
  /\ CodecOff
  /\ streams = <<>> /\ mu = [w |-> FALSE, r |-> 0] /\ gor = <<>>
  /\ RunOff
  /\ BuildOff
  /\ smtActive \in BOOLEAN
  /\ reqs \in Requirements
  /\ def = NoDefinition

\* cntr.setResourceRequirements(&spec.Resources)
SetResourceRequirements ==
  /\ ~def.set
  /\ def' = setResourceRequirements(reqs)
  /\ UNCHANGED <<reqs, smtActive, streams, mu, gor, stdout, stop, runRes, bld>>
  /\ UNCHANGED <<cMode, cNs, cName, cFields, cTag, cRes, wl>>
  /\ UNCHANGED nodeVars

ResNext == SetResourceRequirements

SpecRes == ResInit /\ [][ResNext]_vars

----------------------------------------------------------------------------
(* Gateway harness: cli.run on bounded outputs of the external process.     *)
(* An output is a sequence of tokens: the brackets, "k" for an object       *)
(* member ("ProcessID": 1), "x" for any other text; white space is left    *)
(* out.  The value run decodes into is a struct for '{' (RunEnclave,       *)
(* TerminateEnclave) and a slice of structs for '[' (DescribeEnclaves).    *)

Tokens == {"{", "}", "[", "]", "k", "x"}

Outputs == UNION {[1..n -> Tokens] : n \in 0..MaxOut}

IsObject(text) == text = <<"{", "}">> \/ text = <<"{", "k", "}">>

\* the struct an object decodes to: whether the member was given
ObjectOf(text) == [k |-> Len(text) = 3]

\* json.Unmarshal(text, v): the whole text must be one JSON value of v's
\* kind; value is the sequence of structs decoded (one for a struct)
Unmarshal(delim, text) ==
  IF delim = "{"
  THEN IF IsObject(text) THEN [err |-> NoErr, value |-> <<ObjectOf(text)>>]
       ELSE [err |-> "unmarshal", value |-> <<>>]
  ELSE IF text = <<"[", "]">> THEN [err |-> NoErr, value |-> <<>>]
  ELSE IF Len(text) > 2 /\ text[1] = "[" /\ text[Len(text)] = "]"
          /\ IsObject(SubSeq(text, 2, Len(text) - 1))
  THEN [err |-> NoErr, value |-> <<ObjectOf(SubSeq(text, 2, Len(text) - 1))>>]
  ELSE [err |-> "unmarshal", value |-> <<>>]

\* the index reader.ReadString(delim) stops at: the first delim, 0 if none
FirstIndex(delim, out) ==
  LET occ == {i \in DOMAIN out : out[i] = delim} IN
  IF occ = {} THEN 0 ELSE CHOOSE i \in occ : \A j \in occ : i <= j

runAnyDelimiter(delim, out, exitOk) ==
  LET occ == {i \in DOMAIN out : out[i] \in {"{", "["}}
      from == IF occ = {} THEN 0 ELSE CHOOSE i \in occ : \A j \in occ : i <= j
      u == Unmarshal(delim, SubSeq(out, from, Len(out)))
  IN IF ~exitOk THEN [NoRun EXCEPT !.done = TRUE, !.err = "exit status"]
     ELSE IF from = 0 THEN [NoRun EXCEPT !.done = TRUE, !.exitOk = TRUE, !.err = "EOF"]
     ELSE [done |-> TRUE, exitOk |-> TRUE, err |-> u.err, from |-> from, value |-> u.value]

runIgnoreExit(delim, out, exitOk) ==
  LET from == FirstIndex(delim, out)
      u == Unmarshal(delim, SubSeq(out, from, Len(out)))
  IN IF from = 0 THEN [NoRun EXCEPT !.done = TRUE, !.exitOk = exitOk, !.err = "EOF"]
     ELSE [done |-> TRUE, exitOk |-> exitOk, err |-> u.err, from |-> from, value |-> u.value]

\* cli.run(v, delim, name, arg...): exitOk is whether the process exited 0,
\* out what it wrote to stdout
run(delim, out, exitOk) ==
  LET from == FirstIndex(delim, out)
      u == Unmarshal(delim, SubSeq(out, from, Len(out)))
  IN IF ~exitOk THEN [NoRun EXCEPT !.done = TRUE, !.err = "exit status"]
     ELSE IF from = 0 THEN [NoRun EXCEPT !.done = TRUE, !.exitOk = TRUE, !.err = "EOF"]
     ELSE [done |-> TRUE, exitOk |-> TRUE, err |-> u.err, from |-> from, value |-> u.value]

RunInit ==
  /\ phase = "boot" /\ pods = <<>> /\ enclaves = <<>> /\ nextId = 0
  /\ openListeners = {} /\ tempFiles = {} /\ ret = RetNone /\ calls = <<>>
  /\ nOps = 0 /\ nEnv = 0
  /\ CodecOff
  /\ streams = <<>> /\ mu = [w |-> FALSE, r |-> 0] /\ gor = <<>>
  /\ reqs = NoRequirements /\ def = NoDefinition
  /\ smtActive = FALSE
  /\ stdout \in Outputs
  /\ stop \in {"{", "["}
  /\ runRes = NoRun
  /\ BuildOff

\* RunEnclave / TerminateEnclave (stop = '{') or DescribeEnclaves ('[') calls run
Run(exitOk) ==
  /\ ~runRes.done
  /\ runRes' = run(stop, stdout, exitOk)
  /\ UNCHANGED <<stdout, stop, reqs, def, smtActive, streams, mu, gor, bld>>
  /\ UNCHANGED <<cMode, cNs, cName, cFields, cTag, cRes, wl>>
  /\ UNCHANGED nodeVars

RunNext == \E exitOk \in BOOLEAN : Run(exitOk)

SpecRun == RunInit /\ [][RunNext]_vars

----------------------------------------------------------------------------
(* Create/delete harness: one goroutine in EnclaveProvider.CreatePod and    *)
(* one in EnclaveProvider.DeletePod of another pod, one step per lock       *)
(* operation, per map access and per run of external calls (Start, Stop up  *)
(* to RemovePod).  gor.c is the creating goroutine, gor.d the deleting one, *)
(* gor.reg0 the registry they started from.                                 *)

\* the node after NewNode rebuilt the pods of InitialEnclaves
ReconciledNode ==
  [pods |-> loadPods(InitialEnclaves, 1, <<>>), enclaves |-> InitialEnclaves,
   nextId |-> Len(InitialEnclaves), openListeners |-> {}]

\* the node st after a CreatePod of workload w that met no failure
NodeAfterCreate(st, w) ==
  LET n == NewPod(st.pods, w)
      o == [DefaultOutcome EXCEPT !.binds = [i \in 1..Len(allPorts(w.Containers)) |-> TRUE]]
      s == Start(n.pod, st.enclaves, st.nextId, st.openListeners, {}, o, 0)
  IN [pods |-> InsertPod(n.pods, s.pod, podTag(s.pod)), enclaves |-> s.rt,
      nextId |-> s.next, openListeners |-> s.open]

\* a workload with one container exposing Ports
PlainWorkload(name) ==
  [Namespace |-> <<"a">>, Name |-> name, OwnerReferences |-> {},
   Containers |-> <<[Name |-> "c", Ports |-> Ports, Resources |-> NoRequirements]>>]

\* the nodes the two goroutines start from
ConcNodes ==
  LET empty == [pods |-> <<>>, enclaves |-> <<>>, nextId |-> 0, openListeners |-> {}]
  IN {ReconciledNode,
      NodeAfterCreate(empty, PlainWorkload(<<"b">>)),
      NodeAfterCreate(ReconciledNode, PlainWorkload(<<"b">>))}

concHarnessRest ==
  <<phase, ret, calls, nOps, nEnv, cMode, cNs, cName, cFields, cTag, cRes, wl,
    streams, smtActive, reqs, def, stdout, stop, runRes, bld>>

ConcInit ==
  /\ phase = "up" /\ tempFiles = {} /\ ret = RetNone /\ calls = <<>>
  /\ nOps = 0 /\ nEnv = 0
  /\ CodecOff
  /\ streams = <<>> /\ reqs = NoRequirements /\ def = NoDefinition
  /\ RunOff
  /\ BuildOff
  /\ smtActive = FALSE
  /\ mu = [w |-> FALSE, r |-> 0]
  /\ \E st \in ConcNodes, w \in Workloads, name \in PodNames :
       /\ w.Name # name
       /\ pods = st.pods /\ enclaves = st.enclaves /\ nextId = st.nextId
       /\ openListeners = st.openListeners
       /\ gor = [c |-> [pc |-> "new", w |-> w, pod |-> NilPod, err |-> NoErr],
                 d |-> [pc |-> "get", name |-> name, pod |-> NilPod, err |-> NoErr,
                        ext |-> "none"],
                 reg0 |-> st.pods]

\* CreatePod -> NewPod up to node.InsertPod's n.Lock()
CNewPod ==
  /\ gor.c.pc = "new"
  /\ LET n == NewPod(<<>>, gor.c.w) IN
       IF n.err # NoErr
       THEN /\ gor' = [gor EXCEPT !.c.pc = "done", !.c.err = n.err]
            /\ UNCHANGED mu
       ELSE /\ LockFree(mu)
            /\ mu' = Lock(mu)
            /\ gor' = [gor EXCEPT !.c.pc = "locked", !.c.pod = n.pod]
  /\ UNCHANGED <<pods, enclaves, nextId, openListeners, tempFiles>>
  /\ UNCHANGED concHarnessRest

\* InsertPod: n.pods[tag] = pod
CInsert ==
  /\ gor.c.pc = "locked"
  /\ pods' = InsertPod(pods, gor.c.pod, buildEnclaveNameTag(gor.c.w.Namespace, gor.c.w.Name))
  /\ gor' = [gor EXCEPT !.c.pc = "inserted"]
  /\ UNCHANGED <<mu, enclaves, nextId, openListeners, tempFiles>>
  /\ UNCHANGED concHarnessRest

\* InsertPod's deferred n.Unlock()
CUnlock ==
  /\ gor.c.pc = "inserted"
  /\ mu' = Unlock(mu)
  /\ gor' = [gor EXCEPT !.c.pc = "start"]
  /\ UNCHANGED <<pods, enclaves, nextId, openListeners, tempFiles>>
  /\ UNCHANGED concHarnessRest

\* CreatePod from enclavePod.Start on.  Start writes to the Pod the registry
\* points to.
CStart(o) ==
  /\ gor.c.pc = "start"
  /\ LET tag == buildEnclaveNameTag(gor.c.w.Namespace, gor.c.w.Name)
         s == Start(gor.c.pod, enclaves, nextId, openListeners, tempFiles, o, 1)
     IN /\ o.run = "ok" => tag \notin Names(enclaves)
        /\ pods' = IF tag \in DOMAIN pods /\ pods[tag] = gor.c.pod
                   THEN [pods EXCEPT ![tag] = s.pod] ELSE pods
        /\ enclaves' = s.rt
        /\ nextId' = s.next
        /\ openListeners' = s.open
        /\ tempFiles' = s.files
        /\ gor' = [gor EXCEPT !.c.pc = "done", !.c.pod = s.pod, !.c.err = s.err]
  /\ UNCHANGED mu
  /\ UNCHANGED concHarnessRest

\* DeletePod -> Node.GetPod: n.RLock()
DRLock ==
  /\ gor.d.pc = "get"
  /\ RLockFree(mu)
  /\ mu' = RLock(mu)
  /\ gor' = [gor EXCEPT !.d.pc = "rlocked"]
  /\ UNCHANGED <<pods, enclaves, nextId, openListeners, tempFiles>>
  /\ UNCHANGED concHarnessRest

\* Node.GetPod: pod, ok := n.pods[tag]
DRead ==
  /\ gor.d.pc = "rlocked"
  /\ LET g == GetPod(pods, <<"a">>, gor.d.name) IN
       gor' = [gor EXCEPT !.d.pc = "read", !.d.pod = g.pod, !.d.err = g.err]
  /\ UNCHANGED <<pods, mu, enclaves, nextId, openListeners, tempFiles>>
  /\ UNCHANGED concHarnessRest

\* Node.GetPod's deferred n.RUnlock(); DeletePod returns when the pod is not found
DRUnlock ==
  /\ gor.d.pc = "read"
  /\ mu' = RUnlock(mu)
  /\ gor' = [gor EXCEPT !.d.pc = IF gor.d.err # NoErr THEN "done" ELSE "stop"]
  /\ UNCHANGED <<pods, enclaves, nextId, openListeners, tempFiles>>
  /\ UNCHANGED concHarnessRest

\* Pod.Stop up to pod.node.RemovePod: GetStatus, TerminateEnclave, the
\* listeners closed
DStop(o) ==
  /\ gor.d.pc = "stop"
  /\ LET s == Stop(gor.d.pod, pods, enclaves, openListeners, o) IN
       /\ o.terminate = "true" =>
            \E i \in DOMAIN enclaves : enclaves[i].EnclaveID = gor.d.pod.info.EnclaveID
       /\ enclaves' = s.rt
       /\ openListeners' = s.open
       /\ gor' = [gor EXCEPT !.d.pc = IF s.err # NoErr THEN "done" ELSE "remove",
                             !.d.err = s.err,
                             !.d.ext = IF o.list /\ (s.status.Phase = PodRunning
                                                       => o.terminate # "fail")
                                       THEN "ok" ELSE "failed"]
  /\ UNCHANGED <<pods, mu, nextId, tempFiles>>
  /\ UNCHANGED concHarnessRest

\* RemovePod: n.Lock()
DLock ==
  /\ gor.d.pc = "remove"
  /\ LockFree(mu)
  /\ mu' = Lock(mu)
  /\ gor' = [gor EXCEPT !.d.pc = "wlocked"]
  /\ UNCHANGED <<pods, enclaves, nextId, openListeners, tempFiles>>
  /\ UNCHANGED concHarnessRest

\* RemovePod: delete(n.pods, tag)
DRemove ==
  /\ gor.d.pc = "wlocked"
  /\ pods' = RemovePod(pods, podTag(gor.d.pod))
  /\ gor' = [gor EXCEPT !.d.pc = "removed"]
  /\ UNCHANGED <<mu, enclaves, nextId, openListeners, tempFiles>>
  /\ UNCHANGED concHarnessRest

\* RemovePod's deferred n.Unlock(); Stop and DeletePod return nil
DUnlock ==
  /\ gor.d.pc = "removed"
  /\ mu' = Unlock(mu)
  /\ gor' = [gor EXCEPT !.d.pc = "done"]
  /\ UNCHANGED <<pods, enclaves, nextId, openListeners, tempFiles>>
  /\ UNCHANGED concHarnessRest

ConcNext ==
  \/ CNewPod
  \/ CInsert
  \/ CUnlock
  \/ \E o \in CreateOutcomes(gor.c.w) : CStart(o)
  \/ DRLock
  \/ DRead
  \/ DRUnlock
  \/ \E o \in StopOutcomes : DStop(o)
  \/ DLock
  \/ DRemove
  \/ DUnlock

SpecConc == ConcInit /\ [][ConcNext]_vars

\* the steps of DeletePod that only wait for the registry's lock or work on
\* memory
DeleteMemorySteps == DRLock \/ DRead \/ DRUnlock \/ DLock \/ DRemove \/ DUnlock

\* InsertPod between n.Lock() and its deferred n.Unlock()
InsertCriticalSection == CInsert \/ CUnlock

\* SpecConc where the Go scheduler runs every runnable goroutine, no
\* goroutine stays inside InsertPod's critical section, and the external
\* processes Stop runs return
SpecConcFair ==
  /\ ConcInit /\ [][ConcNext]_vars
  /\ WF_vars(DeleteMemorySteps)
  /\ WF_vars(InsertCriticalSection)
  /\ WF_vars(\E o \in StopOutcomes : DStop(o))

----------------------------------------------------------------------------
(* Image build pipeline (package build) and its harness: BuildEif applied  *)
(* to the argv of bounded container specs, under every outcome of its       *)
(* external steps.  tempFiles is the file system's temporary directory,     *)
(* calls the external tools invoked.  A file is named by the pattern it was *)
(* created with, the unique suffix n, and the directory it is in.           *)

NL == "\n"

\* the name os.CreateTemp("", pattern) / os.MkdirTemp("", pattern) picks
TempName(pattern, n) == [pattern |-> pattern, n |-> n, in |-> ""]

\* filepath.Join(artifactsDir, name)
InDir(dir, name) == [pattern |-> name, n |-> dir.n, in |-> dir.pattern]

\* the external steps of BuildEif in program order; o names the first one
\* that fails, or is "ok"
BuildSteps ==
  <<"mkdir", "bootstrap-create", "bootstrap-render", "cmd-create", "env-create",
    "customer-create", "customer-render", "linuxkit-bootstrap", "linuxkit-customer",
    "read-cmdline", "eif_build">>

BuildOutcomes == {BuildSteps[i] : i \in DOMAIN BuildSteps} \cup {"ok"}

osRemoveAllNoop(files, dir) == files

\* os.RemoveAll(artifactsDir): the directory and everything in it
osRemoveAll(files, dir) ==
  {f \in files : f # dir /\ ~(f.in = dir.pattern /\ f.n = dir.n)}

\* the deferred calls of BuildEif, run last registered first when it returns
RECURSIVE runDefers(_, _)
runDefers(files, ds) ==
  IF ds = <<>> THEN files
  ELSE LET d == ds[Len(ds)]
       IN runDefers(IF d.all THEN osRemoveAll(files, d.name) ELSE osRemove(files, d.name),
                    SubSeq(ds, 1, Len(ds) - 1))

\* generateBootstrap: the file is returned also when rendering fails
generateBootstrap(files, n, o) ==
  IF o = "bootstrap-create"
  THEN [file |-> NoFile, err |-> "create temp failed", files |-> files]
  ELSE [file |-> TempName("bootstrap", n),
        err |-> IF o = "bootstrap-render" THEN "execute failed" ELSE NoErr,
        files |-> files \cup {TempName("bootstrap", n)}]

\* generateCustomer
generateCustomer(files, n, o) ==
  IF o = "customer-create"
  THEN [file |-> NoFile, err |-> "create temp failed", files |-> files]
  ELSE [file |-> TempName("customer", n),
        err |-> IF o = "customer-render" THEN "execute failed" ELSE NoErr,
        files |-> files \cup {TempName("customer", n)}]

\* for _, c := range cmds { fmt.Fprintf(cmd, "%s\n", c) }
RECURSIVE writeCmds(_)
writeCmds(cmds) ==
  IF cmds = <<>> THEN <<>> ELSE Head(cmds) \o <<NL>> \o writeCmds(Tail(cmds))

\* the result of a failed bootstrap builder is overwritten by the next Run
runToolsContinue(files, dir, o) ==
  LET f2 == files \cup {InDir(dir, "bootstrap-initrd.img"), InDir(dir, "customer-initrd.img")}
      c2 == <<Call("linuxkit-bootstrap", 0), Call("linuxkit-customer", 0)>>
  IN IF o = "linuxkit-customer"
     THEN [err |-> "exit status 1", files |-> f2, calls |-> c2, eif |-> FALSE]
     ELSE IF o = "read-cmdline"
     THEN [err |-> "read failed", files |-> f2, calls |-> c2, eif |-> FALSE]
     ELSE IF o = "eif_build"
     THEN [err |-> "exit status 1", files |-> f2,
           calls |-> Append(c2, Call("eif_build", 0)), eif |-> FALSE]
     ELSE [err |-> NoErr, files |-> f2,
           calls |-> Append(c2, Call("eif_build", 0)), eif |-> TRUE]

\* BuildEif from "bootstrapRamdisk := ..." on: the bootstrap builder, the
\* customer builder, the read of cmdline and the image assembler.  A builder
\* that fails may leave partial output in the artifact directory.
runTools(files, dir, o) ==
  LET f1 == files \cup {InDir(dir, "bootstrap-initrd.img")}
      f2 == f1 \cup {InDir(dir, "customer-initrd.img")}
      c1 == <<Call("linuxkit-bootstrap", 0)>>
      c2 == Append(c1, Call("linuxkit-customer", 0))
      c3 == Append(c2, Call("eif_build", 0))
  IN IF o = "linuxkit-bootstrap"
     THEN [err |-> "exit status 1", files |-> f1, calls |-> c1, eif |-> FALSE]
     ELSE IF o = "linuxkit-customer"
     THEN [err |-> "exit status 1", files |-> f2, calls |-> c2, eif |-> FALSE]
     ELSE IF o = "read-cmdline"
     THEN [err |-> "read failed", files |-> f2, calls |-> c2, eif |-> FALSE]
     ELSE IF o = "eif_build"
     THEN [err |-> "exit status 1", files |-> f2, calls |-> c3, eif |-> FALSE]
     ELSE [err |-> NoErr, files |-> f2, calls |-> c3, eif |-> TRUE]

\* BuildEif(blobsPath, image, cmds, envs, output).  The result has the error,
\* the temporary directory after the deferred calls ran (files), everything
\* the call created (made), the tools invoked, what was written to the cmd
\* file and whether the eif was written to output.
BuildEif(files, n, cmds, o) ==
  LET artifactsDir == TempName("initramfs", n)
      cmd == TempName("cmd", n)
      env == TempName("env", n)
      rmAll(f) == [all |-> TRUE, name |-> f]
      rm(f) == [all |-> FALSE, name |-> f]
      return(err, fs, ds, cs, text, eif) ==
        [err |-> err, files |-> runDefers(fs, ds), made |-> fs \ files, calls |-> cs,
         cmdFile |-> text, eif |-> eif]
  IN
  IF o = "mkdir" THEN return("mkdir temp failed", files, <<>>, <<>>, <<>>, FALSE)
  ELSE
  LET f1 == files \cup {artifactsDir}
      d1 == <<rmAll(artifactsDir)>>
      bootstrap == generateBootstrap(f1, n, o)
  IN
  IF bootstrap.err # NoErr THEN return(bootstrap.err, bootstrap.files, d1, <<>>, <<>>, FALSE)
  ELSE
  LET d2 == Append(d1, rm(bootstrap.file)) IN
  IF o = "cmd-create"
  THEN return("create temp failed", bootstrap.files, d2, <<>>, <<>>, FALSE)
  ELSE
  LET f3 == bootstrap.files \cup {cmd}
      d3 == Append(d2, rm(cmd))
  IN
  IF o = "env-create" THEN return("create temp failed", f3, d3, <<>>, <<>>, FALSE)
  ELSE
  LET f4 == f3 \cup {env}
      d4 == Append(d3, rm(env))
      text == writeCmds(cmds)
      customer == generateCustomer(f4, n, o)
  IN
  IF customer.err # NoErr THEN return(customer.err, customer.files, d4, <<>>, text, FALSE)
  ELSE
  LET d5 == Append(d4, rm(customer.file))
      t == runTools(customer.files, artifactsDir, o)
  IN return(t.err, t.files, d5, t.calls, text, t.eif)

\* newContainer, "Add environment variables": the loop over spec.Env from
\* entry i on.  cntr.definition.Environment[env.Name] = env.Value panics
\* when the map was never made.
RECURSIVE addEnvironment(_, _, _)
addEnvironment(env, i, acc) ==
  IF i > Len(env) \/ acc.panic THEN acc
  ELSE IF ~acc.map.made THEN [acc EXCEPT !.panic = TRUE]
  ELSE addEnvironment(env, i + 1,
         [acc EXCEPT !.map.kv = [k \in DOMAIN acc.map.kv \cup {env[i].Name} |->
                                   IF k = env[i].Name THEN env[i].Value
                                   ELSE acc.map.kv[k]]])

\* newContainer: EntryPoint: spec.Command, Command: spec.Args; the literal
\* leaves Environment nil
newContainer(spec) ==
  LET e == addEnvironment(spec.Env, 1, [map |-> NilMap, panic |-> FALSE])
  IN [EntryPoint |-> spec.Command, Command |-> spec.Args, Environment |-> e.map,
      panic |-> e.panic]

\* Start: append(d.EntryPoint, d.Command...), the cmds BuildEif is called with
argv(d) == d.EntryPoint \o d.Command

\* the elements a container's command and args are made of: Kubernetes
\* admits any string
ArgStrings == {<<>>, <<"a">>, <<"b">>, <<"a", NL, "b">>}

ArgLists == UNION {[1..n -> ArgStrings] : n \in 0..MaxArgs}

\* the env entries of a container spec: none, one, two of the same name
EnvLists ==
  {<<>>, <<[Name |-> "k", Value |-> "v"]>>,
   <<[Name |-> "k", Value |-> "v"], [Name |-> "k", Value |-> "w"]>>}

BuildInit ==
  /\ phase = "boot" /\ pods = <<>> /\ enclaves = <<>> /\ nextId = 0
  /\ openListeners = {} /\ tempFiles = {} /\ ret = RetNone /\ calls = <<>>
  /\ nOps = 0 /\ nEnv = 0
  /\ CodecOff
  /\ streams = <<>> /\ mu = [w |-> FALSE, r |-> 0] /\ gor = <<>>
  /\ reqs = NoRequirements /\ def = NoDefinition
  /\ RunOff
  /\ smtActive = FALSE
  /\ \E c \in ArgLists, a \in ArgLists, e \in EnvLists :
       bld = [NoBuild EXCEPT !.Command = c, !.Args = a, !.Env = e]

\* one call of build.BuildEif, as Pod.Start makes it for the container
Build(o) ==
  /\ ~bld.done /\ ~bld.panic
  /\ LET d == newContainer(bld)
         b == BuildEif(tempFiles, 1, argv(d), o)
     IN /\ ~d.panic
        /\ bld' = [bld EXCEPT !.done = TRUE, !.o = o, !.err = b.err,
                              !.cmdFile = b.cmdFile, !.made = b.made, !.eif = b.eif,
                              !.Environment = d.Environment]
        /\ tempFiles' = b.files
        /\ calls' = b.calls
  /\ UNCHANGED <<phase, pods, enclaves, nextId, openListeners, ret, nOps, nEnv>>
  /\ UNCHANGED <<cMode, cNs, cName, cFields, cTag, cRes, wl, smtActive>>
  /\ UNCHANGED <<streams, mu, gor, reqs, def, stdout, stop, runRes>>

\* newContainer panics: NewPod does not return and BuildEif is never called
NewContainerPanics ==
  /\ ~bld.done /\ ~bld.panic
  /\ newContainer(bld).panic
  /\ bld' = [bld EXCEPT !.panic = TRUE]
  /\ UNCHANGED <<phase, pods, enclaves, nextId, openListeners, tempFiles, ret, calls,
                 nOps, nEnv>>
  /\ UNCHANGED <<cMode, cNs, cName, cFields, cTag, cRes, wl, smtActive>>
  /\ UNCHANGED <<streams, mu, gor, reqs, def, stdout, stop, runRes>>

BuildNext ==
  \/ \E o \in BuildOutcomes : Build(o)
  \/ NewContainerPanics

SpecBuild == BuildInit /\ [][BuildNext]_vars

----------------------------------------------------------------------------
(* Claims *)

Called(cs, cmd) == \E i \in DOMAIN cs : cs[i].cmd = cmd

\* the listing rt has an entry named tag in state RUNNING or TERMINATING
ListedActive(rt, tag) ==
  \E i \in DOMAIN rt :
     /\ rt[i].EnclaveName = tag
     /\ rt[i].State \in {enclaveStateRunning, enclaveStateTerminating}

\* C1: after a CreatePod whose image build failed, an error was returned,
\* run-enclave was not invoked and the registry has no entry under the pod's tag
C1_FailedBuildLeavesNoEntry ==
  (ret.op = "CreatePod" /\ ret.err = "failed to build enclave image")
    => /\ ~Called(calls, "run-enclave")
       /\ ret.tag \notin DOMAIN pods

\* C2: Stop invokes terminate-enclave iff the status read at its start is
\* running, i.e. describe-enclaves succeeded and lists the pod's tag RUNNING or
\* TERMINATING; when the status is Failed, terminate-enclave is not invoked
\* and the pod is removed from the registry
C2_TerminateIffRunning ==
  [][(ret'.op = "DeletePod" /\ nOps' # nOps /\ ret'.err # "not found")
       => LET tag == podTag(ret'.pod)
              running == ret'.listOk /\ ListedActive(enclaves, tag)
          IN /\ Called(calls', "terminate-enclave") <=> running
             /\ running <=> ret'.status = PodRunning
             /\ ret'.status = PodFailed
                  => /\ ~Called(calls', "terminate-enclave")
                     /\ tag \in DOMAIN pods
                     /\ tag \notin DOMAIN pods']_vars

C2_Witness ==
  /\ ret.op = "DeletePod"
  /\ ret.status = PodFailed
  /\ ret.err = NoErr
  /\ ret.pod.info.EnclaveID # 0
  /\ ~Called(calls, "terminate-enclave")
  /\ podTag(ret.pod) \notin DOMAIN pods

\* C3: after Stop returned success, every listener of the pod is closed and
\* the registry has no entry under the pod's tag
C3_StopClosesAndRemoves ==
  (ret.op = "DeletePod" /\ ret.err = NoErr)
    => /\ \A i \in DOMAIN ret.pod.listeners : ret.pod.listeners[i] \notin openListeners
       /\ podTag(ret.pod) \notin DOMAIN pods

C3_Witness ==
  /\ ret.op = "DeletePod"
  /\ ret.err = NoErr
  /\ Len(ret.pod.listeners) >= 2
  /\ \E i \in DOMAIN ret.pod.listeners : ret.pod.listeners[i].net = "vsock"

\* C4: when NewNode succeeds on a listing with N entries whose names decode
\* as tags and M whose names do not, the registry holds exactly N pods, one
\* under the name of each of the N entries, carrying the namespace and name
\* decoded from it, and nothing under the names of the M others
C4_Reconciliation ==
  [][(phase = "boot" /\ phase' = "up")
       => LET valid == {i \in DOMAIN enclaves :
                          NewPodFromTag(enclaves[i].EnclaveName).err = NoErr}
          IN /\ Cardinality(DOMAIN pods') = Cardinality(valid)
             /\ DOMAIN pods' = {enclaves[i].EnclaveName : i \in valid}
             /\ \A i \in valid :
                  LET tag == enclaves[i].EnclaveName IN
                  /\ pods'[tag].namespace = NewPodFromTag(tag).pod.namespace
                  /\ pods'[tag].name = NewPodFromTag(tag).pod.name]_vars

C4_Witness ==
  /\ ret.op = "NewNode"
  /\ phase = "up"
  /\ Cardinality(DOMAIN pods) = 2
  /\ Len(enclaves) = 3

\* C5: for every namespace and name without "_", decoding the tag built
\* from them succeeds and yields that namespace and that name
C5_TagRoundTrip ==
  (cMode = "pair-decoded" /\ NoSep(cNs) /\ NoSep(cName))
    => /\ cRes.err = NoErr
       /\ cRes.pod.namespace = cNs
       /\ cRes.pod.name = cName

C5_Witness ==
  /\ cMode = "pair-decoded"
  /\ cNs = <<"a", "a">>
  /\ cName = <<"a">>
  /\ cRes.pod.namespace = <<"a", "a">>

\* C6: NewPodFromTag fails with "invalid tag" exactly for the strings that
\* have fewer than 3 "_"-separated fields or whose first field is not
\* "vk-podspec"
C6_InvalidTagRejected ==
  cMode = "raw-decoded"
    => IF Len(cFields) < 3 \/ cFields[1] # enclaveNamePrefix
       THEN cRes.err = "invalid tag" /\ cRes.pod.isNil
       ELSE cRes.err = NoErr /\ ~cRes.pod.isNil

C6_Witness ==
  /\ cMode = "raw-decoded"
  /\ Len(cFields) = 2
  /\ cFields[1] = enclaveNamePrefix
  /\ cRes.err = "invalid tag"

\* C7: GetStatus lists the runtime afresh on every call and reports Running
\* exactly when that listing succeeded and has an entry named with the pod's
\* tag in state RUNNING or TERMINATING; otherwise it reports Failed or
\* Unknown.  The status follows the runtime's listing at the time of the
\* call, not anything stored on the pod.
C7_StatusFromFreshListing ==
  [][(ret'.op = "GetPodStatus" /\ nOps' # nOps /\ ret'.err = NoErr)
       => /\ Called(calls', "describe-enclaves")
          /\ ret'.status = PodRunning
               <=> (ret'.listOk /\ ListedActive(enclaves, podTag(ret'.pod)))
          /\ ret'.status \in {PodRunning, PodFailed, PodUnknown}]_vars

C7_Witness ==
  /\ ret.op = "GetPodStatus"
  /\ ret.status = PodFailed
  /\ ret.pod.info.EnclaveID > Len(InitialEnclaves)
  /\ ret.pod.listeners # <<>>

C9_FailedLaunchCleansUp ==
  [][(ret'.op = "CreatePod" /\ nOps' # nOps
        /\ Called(calls', "build") /\ ret'.err # "failed to build enclave image"
        /\ ~(Called(calls', "run-enclave") /\ Len(enclaves') > Len(enclaves)))
       => /\ ret'.err = "failed to run enclave"
          /\ openListeners' = openListeners
          /\ ret'.pod.listeners = <<>>
          /\ ~Called(calls', "listen-tcp") /\ ~Called(calls', "listen-vsock")
          /\ ret'.pod.info = NoInfo
          /\ pods'[ret'.tag].info = NoInfo
          /\ ret'.pod.config.EifPath # NoFile
          /\ ret'.pod.config.EifPath \notin tempFiles']_vars

C9_Witness ==
  /\ ret.op = "CreatePod"
  /\ ret.err = "failed to run enclave"
  /\ Called(calls, "run-enclave")
  /\ ret.pod.config.EifPath # NoFile
  /\ ret.pod.config.EifPath \notin tempFiles

\* C10: a Stop whose terminate-enclave answered Terminated=false without a
\* process error does not report success
C10_NotTerminatedIsSurfaced ==
  (ret.op = "DeletePod" /\ ret.terminated = "false") => ret.err # NoErr

\* C11: once Close has been called on a console stream, Close has returned
\* and the console process has been killed and reaped
C11_CloseKillsAndReaps ==
  \A i \in DOMAIN streams :
     streams[i].close # "none"
       => streams[i].close = "returned" /\ streams[i].proc = "reaped"

\* C12: a goroutine inside InsertPod or RemovePod is alone in the registry's
\* critical sections, the lock counts exactly the goroutines inside, and no
\* operation has accessed the map between the two halves of a write
C12_RegistryLockDiscipline ==
  /\ \A p, q \in Procs :
        (p # q /\ gor[p].pc # "idle" /\ gor[p].op \in Writers) => gor[q].pc = "idle"
  /\ mu.w = (\E p \in Procs : gor[p].pc # "idle" /\ gor[p].op \in Writers)
  /\ mu.r = Cardinality({p \in Procs : gor[p].pc # "idle" /\ gor[p].op \in Readers})
  /\ \A p \in Procs : ~gor[p].raced

C12_Witness ==
  \E p, q \in Procs :
     /\ p # q
     /\ gor[p].pc = "writing" /\ gor[p].op = "InsertPod"
     /\ gor[q].last.op = "GetPods"
     /\ mu = [w |-> TRUE, r |-> 0]

\* C13: the collection GetPods returns holds exactly the registry's values
\* at the instant of its return, and what its holder sees in it stays the
\* same through every later step, inserts and removes included
C13_GetPodsSnapshot ==
  [][\A p \in Procs :
       /\ (gor[p].op = "GetPods" /\ gor[p].pc # "idle" /\ gor'[p].pc = "idle")
            => /\ Observed(gor'[p].last.pods, pods') = {pods[t] : t \in DOMAIN pods}
               /\ Len(gor[p].items) = Cardinality(DOMAIN pods)
       /\ (gor[p].last.op = "GetPods" /\ gor'[p].last = gor[p].last)
            => Observed(gor'[p].last.pods, pods') = Observed(gor[p].last.pods, pods)]_vars

C13_Witness ==
  \E p \in Procs :
     /\ gor[p].last.op = "GetPods"
     /\ Len(gor[p].last.pods.items) = 2
     /\ Observed(gor[p].last.pods, pods) # {pods[t] : t \in DOMAIN pods}

\* C14: a DeletePod or GetPodStatus (the provider's GetPod followed by a
\* field read) for a tag absent from the registry returns the not-found
\* error, makes no external call and changes neither registry nor runtime
C14_NotFoundPropagates ==
  [][(nOps' = nOps + 1 /\ ret'.op \in {"DeletePod", "GetPodStatus"}
        /\ ret'.tag \notin DOMAIN pods)
       => /\ ret'.err = "not found"
          /\ calls' = <<>>
          /\ pods' = pods
          /\ enclaves' = enclaves
          /\ openListeners' = openListeners]_vars

C14_Witness ==
  /\ ret.op = "DeletePod"
  /\ ret.err = "not found"
  /\ calls = <<>>
  /\ ret.tag \notin DOMAIN pods
  /\ Cardinality(DOMAIN pods) = 2
  /\ Len(enclaves) = 3

\* the CPU quantity and the memory quantity the translation is to use:
\* the limit when there is one, the request otherwise
CpuGiven == IF reqs.Limits.cpu.ok THEN reqs.Limits.cpu ELSE reqs.Requests.cpu

MemoryGiven == IF reqs.Limits.memory.ok THEN reqs.Limits.memory ELSE reqs.Requests.memory

\* C15: the translated CPU count is at least 1 when SMT is inactive and is
\* even when SMT is active
C15_CpuAtLeastOneOrEven ==
  def.set => /\ ~smtActive => def.Cpu >= 1
             /\ smtActive => def.Cpu % 2 = 0

\* C16: when a CPU quantity is given, the translated CPU count is
\* floor(milli / 1000), doubled when SMT is active, of the limit if there is
\* one and of the request otherwise; a limit of 3 with SMT active gives 6
C16_CpuFromLimitThenRequest ==
  (def.set /\ CpuGiven.ok)
    => /\ def.Cpu = (CpuGiven.v \div 1000) * (IF smtActive THEN 2 ELSE 1)
       /\ (smtActive /\ reqs.Limits.cpu = [ok |-> TRUE, v |-> 3000]) => def.Cpu = 6

C16_Witness ==
  /\ def.set /\ smtActive
  /\ reqs.Limits.cpu = [ok |-> TRUE, v |-> 3000]
  /\ reqs.Requests.cpu = [ok |-> TRUE, v |-> 1000]
  /\ def.Cpu = 6

\* C17: when a memory quantity is given, the translated memory is the
\* ceiling of bytes / MiB, of the limit if there is one and of the request
\* otherwise, and is never below bytes / MiB
C17_MemoryCeiling ==
  (def.set /\ MemoryGiven.ok)
    => /\ def.Memory = (MemoryGiven.v + MiB - 1) \div MiB
       /\ def.Memory * MiB >= MemoryGiven.v

\* C18: a pod whose single container gives no CPU and no memory quantity is
\* launched with cpu_count 2 and memory_mib 512, whatever smtActive is
C18_DefaultsSentToLaunch ==
  (ret.op = "CreatePod" /\ Called(calls, "run-enclave"))
    => /\ ret.pod.config.CPUCount = 2
       /\ ret.pod.config.MemoryMib = 512

C18_Witness ==
  /\ ret.op = "CreatePod" /\ ret.err = NoErr
  /\ smtActive
  /\ Called(calls, "run-enclave")
  /\ Len(enclaves) = 4
  /\ ret.pod.config.CPUCount = 2
  /\ ret.pod.config.MemoryMib = 512

\* C21: when CreatePod launches the enclave, Start binds every port mapping
\* in turn; a mapping whose bind fails is skipped and nothing else: CreatePod
\* returns no error, every mapping's bind was attempted, the pod's listeners
\* are exactly the listeners this Start opened, and the pod is reported
\* running when the listing can be read
C21_BindFailureSkipsOnlyThatMapping ==
  [][(ret'.op = "CreatePod" /\ nOps' = nOps + 1 /\ Len(enclaves') > Len(enclaves))
       => LET p == ret'.pod
          IN /\ ret'.err = NoErr
             /\ \A i \in DOMAIN p.ports :
                   \E k \in DOMAIN calls' : calls'[k] = Call("listen-tcp", p.ports[i].hostPort)
             /\ {p.listeners[i] : i \in DOMAIN p.listeners} = openListeners' \ openListeners
             /\ Len(p.listeners) = Cardinality(openListeners' \ openListeners)
             /\ ret'.listOk => ret'.status = PodRunning]_vars

\* the bind of the first mapping failed, the second mapping has its listener
C21_Witness ==
  /\ ret.op = "CreatePod" /\ ret.err = NoErr
  /\ Len(ret.pod.ports) = 2
  /\ TcpAddr(ret.pod.ports[1].hostPort) \notin openListeners
  /\ \E i \in DOMAIN ret.pod.listeners :
        ret.pod.listeners[i] = TcpAddr(ret.pod.ports[2].hostPort)
  /\ ret.status = PodRunning

\* the directories BuildEif created with os.MkdirTemp
ArtifactDirs == {f \in bld.made : f.pattern = "initramfs" /\ f.in = ""}

\* C22: when BuildEif has returned, an artifact directory it created no
\* longer exists, nor anything in it; when the customer builder failed,
\* BuildEif returned an error, the image assembler was not invoked and no
\* eif was written
C22_ArtifactDirRemoved ==
  bld.done
    => /\ \A dir \in ArtifactDirs :
             \A f \in tempFiles : f # dir /\ ~(f.in = dir.pattern /\ f.n = dir.n)
       /\ bld.o = "linuxkit-customer"
            => /\ bld.err # NoErr
               /\ ArtifactDirs # {}
               /\ ~Called(calls, "eif_build")
               /\ ~bld.eif

C22_Witness ==
  /\ bld.done /\ bld.o = "linuxkit-customer"
  /\ Called(calls, "linuxkit-customer")
  /\ \E f \in bld.made : f.pattern = "customer-initrd.img"
  /\ tempFiles = {}

\* the external tools in pipeline order
ToolOrder ==
  <<Call("linuxkit-bootstrap", 0), Call("linuxkit-customer", 0), Call("eif_build", 0)>>

\* C23: the tools BuildEif invoked are a prefix of bootstrap builder,
\* customer builder, image assembler (in that order, each at most once);
\* when a tool fails it is the last one invoked and BuildEif returns an
\* error; all three are invoked only when no step failed before the third
C23_ToolsInOrderNoRetry ==
  bld.done
    => /\ Len(calls) <= Len(ToolOrder)
       /\ calls = SubSeq(ToolOrder, 1, Len(calls))
       /\ \A i \in DOMAIN ToolOrder :
            bld.o = ToolOrder[i].cmd => (Len(calls) = i /\ bld.err # NoErr)
       /\ bld.o = "read-cmdline" => (Len(calls) = 2 /\ bld.err # NoErr)
       /\ bld.o = "ok" => (calls = ToolOrder /\ bld.err = NoErr)

C23_Witness ==
  /\ bld.done /\ bld.o = "linuxkit-bootstrap"
  /\ calls = <<Call("linuxkit-bootstrap", 0)>>
  /\ bld.err # NoErr

\* C24: when BuildEif has returned, nothing it created is left
C24_AllTemporariesRemoved ==
  bld.done => tempFiles \cap bld.made = {}

\* the lines of a text file: the text between consecutive newlines, the
\* last newline ends the last line
Lines(text) ==
  LET seps == {i \in DOMAIN text : text[i] = NL}
      n == Cardinality(seps)
      pos(k) == IF k = 0 THEN 0
                ELSE CHOOSE i \in seps : Cardinality({j \in seps : j < i}) = k - 1
      whole == [k \in 1..n |-> SubSeq(text, pos(k - 1) + 1, pos(k) - 1)]
  IN IF pos(n) = Len(text) THEN whole
     ELSE Append(whole, SubSeq(text, pos(n) + 1, Len(text)))

\* C25: once the cmd file is written, its lines are the container's command
\* followed by its args, element by element
C25_CmdFileIsArgv ==
  (bld.done /\ Called(calls, "linuxkit-bootstrap"))
    => Lines(bld.cmdFile) = bld.Command \o bld.Args

\* the positions in cs of the calls of cmd
Positions(cs, cmd) == {i \in DOMAIN cs : cs[i].cmd = cmd}

\* C26: within one Start the image is built at most once and before the
\* launch, and there is no launch after a failed build; a listener is bound
\* only after the launch, and only when the launch succeeded; the pod's
\* stored EnclaveInfo changes only when the launch succeeded, and then to
\* the launched enclave's
C26_BuildLaunchBridgeStore ==
  [][(ret'.op = "CreatePod" /\ nOps' # nOps)
       => LET builds == Positions(calls', "build")
              launches == Positions(calls', "run-enclave")
              listens == Positions(calls', "listen-tcp") \cup Positions(calls', "listen-vsock")
              launched == Len(enclaves') > Len(enclaves)
          IN /\ Cardinality(builds) <= 1 /\ Cardinality(launches) <= 1
             /\ \A r \in launches : \E b \in builds : b < r
             /\ ret'.err = "failed to build enclave image" => launches = {}
             /\ \A l \in listens : launched /\ \E r \in launches : r < l
             /\ openListeners' # openListeners => launched
             /\ launched => launches # {}
             /\ ret'.pod.info # NoInfo
                  => /\ launched
                     /\ ret'.pod.info.EnclaveID = enclaves'[Len(enclaves')].EnclaveID
                     /\ ret'.pod.info.EnclaveCID = enclaves'[Len(enclaves')].EnclaveCID]_vars

C26_Witness ==
  /\ ret.op = "CreatePod" /\ ret.err = NoErr
  /\ calls[2].cmd = "build" /\ calls[3].cmd = "run-enclave" /\ calls[4].cmd = "listen-tcp"
  /\ Called(calls, "listen-vsock")
  /\ ret.pod.info.EnclaveID = nextId
  /\ Len(ret.pod.listeners) = 3

\* C27: when DeletePod's Stop finds the pod running and terminate-enclave
\* fails, DeletePod returns the error "failed to stop enclave", the registry
\* is unchanged (the pod is still under its tag) and no listener is closed
C27_FailedTerminateKeepsPod ==
  [][(ret'.op = "DeletePod" /\ nOps' # nOps
        /\ Called(calls', "terminate-enclave") /\ ret'.terminated = "none")
       => /\ ret'.status = PodRunning
          /\ ret'.err = "failed to stop enclave"
          /\ ret'.tag \in DOMAIN pods'
          /\ pods' = pods
          /\ pods'[ret'.tag] = ret'.pod
          /\ openListeners' = openListeners
          /\ enclaves' = enclaves]_vars

\* terminate failed for a pod this process created, which has open listeners
C27_Witness ==
  /\ ret.op = "DeletePod" /\ ret.err = "failed to stop enclave"
  /\ Called(calls, "terminate-enclave") /\ ret.terminated = "none"
  /\ ret.tag \in DOMAIN pods
  /\ Len(ret.pod.listeners) >= 2
  /\ \A i \in DOMAIN ret.pod.listeners : ret.pod.listeners[i] \in openListeners

\* a pod rebuilt by loadPodState: it has no enclave configuration
Reconciled(pod) == ~pod.isNil /\ pod.config.EnclaveName = <<>>

C30_LogListenerPort ==
  [][(ret'.op = "CreatePod" /\ nOps' # nOps /\ Len(enclaves') > Len(enclaves))
       => LET cid == enclaves'[Len(enclaves')].EnclaveCID
              addr == ListenWriterAddr(cid)
              bound == addr \in openListeners' \ openListeners
              logListeners == {i \in DOMAIN ret'.pod.listeners :
                                 ret'.pod.listeners[i].net = "vsock"}
          IN /\ ret'.err = NoErr
             /\ Cardinality(Positions(calls', "listen-vsock")) = 1
             /\ \A k \in Positions(calls', "listen-vsock") :
                  calls'[k].arg = addr.port /\ calls'[k].arg = 10000 + cid
             /\ \A l \in openListeners' \ openListeners : l.net = "vsock" => l = addr
             /\ bound => /\ Cardinality(logListeners) = 1
                         /\ \A i \in logListeners : ret'.pod.listeners[i] = addr
             /\ ~bound => logListeners = {}]_vars

C30_Witness ==
  /\ ret.op = "CreatePod" /\ ret.err = NoErr
  /\ ret.pod.info.EnclaveCID >= 16
  /\ Call("listen-vsock", 10000 + ret.pod.info.EnclaveCID) \in {calls[k] : k \in DOMAIN calls}
  /\ ListenWriterAddr(ret.pod.info.EnclaveCID) \in openListeners
  /\ ret.pod.listeners[Len(ret.pod.listeners)] = ListenWriterAddr(ret.pod.info.EnclaveCID)

\* C29: when a CreatePod of pod A and a DeletePod of another pod B that ran
\* concurrently have both returned nil, the registry has the created pod
\* under A's tag, nothing under B's tag, and every other entry it started
\* with, unchanged, and nothing else
C29_CreateAndDeleteCommute ==
  (/\ gor.c.pc = "done" /\ gor.c.err = NoErr
   /\ gor.d.pc = "done" /\ gor.d.err = NoErr)
    => LET tagA == buildEnclaveNameTag(gor.c.w.Namespace, gor.c.w.Name)
           tagB == buildEnclaveNameTag(<<"a">>, gor.d.name)
       IN /\ tagA # tagB
          /\ tagA \in DOMAIN pods /\ pods[tagA] = gor.c.pod
          /\ pods[tagA].namespace = gor.c.w.Namespace /\ pods[tagA].name = gor.c.w.Name
          /\ tagB \notin DOMAIN pods
          /\ DOMAIN pods = (DOMAIN gor.reg0 \cup {tagA}) \ {tagB}
          /\ \A t \in DOMAIN pods \ {tagA} : pods[t] = gor.reg0[t]

\* both returned nil, from a registry that had B and another entry
C29_Witness ==
  /\ gor.c.pc = "done" /\ gor.c.err = NoErr
  /\ gor.d.pc = "done" /\ gor.d.err = NoErr
  /\ buildEnclaveNameTag(<<"a">>, gor.d.name) \in DOMAIN gor.reg0
  /\ Cardinality(DOMAIN gor.reg0) = 2
  /\ Cardinality(DOMAIN pods) = 2
  /\ gor.c.pod.info.EnclaveID > Len(InitialEnclaves)

\* C31: for a container spec with one or more env entries newContainer
\* returns, with an Environment that maps every declared name to its value
\* (the last one declared for the name)
C31_EnvironmentRecorded ==
  Len(bld.Env) >= 1
    => /\ ~bld.panic
       /\ bld.done
            => /\ DOMAIN bld.Environment.kv = {bld.Env[i].Name : i \in DOMAIN bld.Env}
               /\ \A i \in DOMAIN bld.Env :
                    (\A j \in DOMAIN bld.Env : j > i => bld.Env[j].Name # bld.Env[i].Name)
                      => bld.Environment.kv[bld.Env[i].Name] = bld.Env[i].Value

\* C32: when the listing NewNode makes fails, NewNode returns an error and
\* no Node: the provider is not up and there is no registry
C32_FailedListNoNode ==
  (ret.op = "NewNode" /\ ~ret.listOk)
    => /\ ret.err # NoErr
       /\ phase = "boot"
       /\ pods = <<>>

C32_Witness ==
  /\ ret.op = "NewNode" /\ ~ret.listOk
  /\ ret.err = "failed to load pod state"
  /\ enclaves = InitialEnclaves
  /\ phase = "boot"

\* C33: every registry entry is stored under the tag built from the
\* namespace and name of the pod it holds, so GetPod with that namespace and
\* name returns the entry
C33_KeyIsPodTag ==
  \A t \in DOMAIN pods :
     /\ t = buildEnclaveNameTag(pods[t].namespace, pods[t].name)
     /\ GetPod(pods, pods[t].namespace, pods[t].name).pod = pods[t]

\* C34: no operation, GetContainerLogs included, has read the registry map
\* while an InsertPod or RemovePod was between the two halves of its map
\* write, and every goroutine that read the map held the lock
C34_EveryMapAccessLocked ==
  \A p \in Procs :
     /\ ~gor[p].raced
     /\ gor[p].last.op \in {"none"} \cup Readers \cup Writers

\* C35: in every DeletePod step whose Stop calls terminate-enclave, the ID
\* passed is not empty and is the EnclaveID of an enclave the runtime lists
\* under the pod's tag when the call is made
C35_TerminateTargetsListedEnclave ==
  [][(nOps' = nOps + 1 /\ ret'.op = "DeletePod" /\ Called(calls', "terminate-enclave"))
       => \A k \in DOMAIN calls' :
            calls'[k].cmd = "terminate-enclave"
              => /\ calls'[k].arg # 0
                 /\ \E i \in DOMAIN enclaves :
                      /\ enclaves[i].EnclaveID = calls'[k].arg
                      /\ enclaves[i].EnclaveName = ret'.tag]_vars

\* C36: after a DeletePod whose Stop returned success and removed the pod,
\* the runtime holds no RUNNING enclave named with the pod's tag
C36_NoRunningEnclaveAfterStop ==
  (ret.op = "DeletePod" /\ ~ret.pod.isNil /\ ret.err = NoErr)
    => /\ ret.tag \notin DOMAIN pods
       /\ ~\E i \in DOMAIN enclaves :
             /\ enclaves[i].EnclaveName = ret.tag
             /\ enclaves[i].State = enclaveStateRunning

\* C37: every open listener is one of the listeners of a pod that is the
\* registry's entry for its tag
C37_OpenListenersBelongToEntries ==
  \A l \in openListeners :
     \E t \in DOMAIN pods :
        /\ t = podTag(pods[t])
        /\ \E i \in DOMAIN pods[t].listeners : pods[t].listeners[i] = l

\* C38: a DeletePod that was invoked returns; when it found its pod and
\* every external process it ran returned successfully, it returned nil and
\* from its return on the pod's tag is absent from the registry (the
\* concurrent CreatePod is for another tag)
C38_DeleteTakesEffect ==
  /\ (gor.d.pc = "get") ~> (gor.d.pc = "done")
  /\ [](gor.d.ext = "ok"
          => /\ gor.d.err = NoErr
             /\ gor.d.pc = "done"
                  => buildEnclaveNameTag(<<"a">>, gor.d.name) \notin DOMAIN pods)

C38_Witness ==
  /\ gor.d.pc = "done" /\ gor.d.ext = "ok" /\ ~gor.d.pod.isNil
  /\ gor.c.pc = "done" /\ gor.c.err = NoErr
  /\ buildEnclaveNameTag(<<"a">>, gor.d.name) \in DOMAIN gor.reg0
  /\ buildEnclaveNameTag(<<"a">>, gor.d.name) \notin DOMAIN pods
  /\ buildEnclaveNameTag(<<"a">>, gor.d.name) \notin Names(enclaves)

\* the process exited 0 and its output is a preamble without the expected
\* delimiter followed, from index i on, by one JSON value of the expected kind
PreambleThenValue(i) ==
  /\ runRes.exitOk
  /\ i \in DOMAIN stdout
  /\ \A j \in 1..(i - 1) : stdout[j] # stop
  /\ Unmarshal(stop, SubSeq(stdout, i, Len(stdout))).err = NoErr

\* C19: for an output that is a preamble without the expected delimiter
\* followed by one JSON value, run returns no error and decodes exactly that
\* value, whatever else the preamble holds; and whenever run decodes, it
\* decodes from the first occurrence of the expected delimiter
C19_RunDecodesFromFirstDelimiter ==
  runRes.done
    => /\ \A i \in DOMAIN stdout :
            PreambleThenValue(i)
              => /\ runRes.err = NoErr
                 /\ runRes.value = Unmarshal(stop, SubSeq(stdout, i, Len(stdout))).value
       /\ runRes.from # 0
            => /\ stdout[runRes.from] = stop
               /\ \A j \in 1..(runRes.from - 1) : stdout[j] # stop

C19_Witness ==
  /\ runRes.done /\ runRes.err = NoErr
  /\ stop = "{"
  /\ stdout = <<"[", "]", "{", "k", "}">>
  /\ runRes.value = <<[k |-> TRUE]>>

\* C20: run returns an error when the process exits non-zero, when the output
\* has no delimiter of the expected kind, or when decoding from the delimiter
\* fails; a list output that is an empty array gives no error and no entry
C20_RunErrors ==
  runRes.done
    => /\ ~runRes.exitOk => runRes.err # NoErr
       /\ (\A j \in DOMAIN stdout : stdout[j] # stop) => runRes.err # NoErr
       /\ (runRes.from # 0
            /\ Unmarshal(stop, SubSeq(stdout, runRes.from, Len(stdout))).err # NoErr)
            => runRes.err # NoErr
       /\ (runRes.exitOk /\ stop = "[" /\ PreambleThenValue(Len(stdout) - 1)
            /\ SubSeq(stdout, Len(stdout) - 1, Len(stdout)) = <<"[", "]">>)
            => runRes.err = NoErr /\ runRes.value = <<>>

C20_Witness ==
  /\ runRes.done /\ ~runRes.exitOk
  /\ stop = "["
  /\ stdout = <<"x", "[", "]">>
  /\ runRes.err = "exit status"

====
